---- MODULE Spec2Model ----
(***************************************************************************)
(* PresentAI backend: the chunked upload reassembler of                    *)
(* backend/routes/sessions.py (upload_chunk and the process-wide           *)
(* _chunk_storage table) and the credential refresh gate of                *)
(* backend/services/google_auth.py (get_valid_credentials_from_doc, with   *)
(* its caller require_auth and the route POST /auth/refresh) as a state    *)
(* machine.  One handler invocation is a sequence of steps of one request  *)
(* thread; the steps are cut where the handler reads or writes shared      *)
(* state (the table, the user store, the clock, the token endpoint), so    *)
(* that the interleavings of concurrently dispatched requests are the      *)
(* interleavings of these steps.                                           *)
(***************************************************************************)
EXTENDS Integers, Sequences, FiniteSets, TLC

\* ------------------------------------------------------------------ bounds
\* Requests one run of the sequential reassembly specification serves.
MaxRequests == 3
\* Requests one run of the form-parsing specification serves.
MaxFormRequests == 2
\* Requests one run of the two-thread specification serves.
MaxConcRequests == 2
\* Requests one run of the sequential credential specification serves.
MaxCredRequests == 2
\* Requests one run of the two-thread credential specification serves.
MaxCredConcRequests == 2
\* Requests one run of the two-user specification serves.
MaxOwnerRequests == 2
\* Requests served in a run of the presentation routes.
MaxCacheRequests == 3
\* Requests served in a run of the sign-in, logout and session routes.
MaxSessionRequests == 3
\* The clock stops advancing at this time.
MaxNow == 3

\* ------------------------------------------------------------- vocabulary
\* A form field the request does not carry (request.form.get falls back to
\* the default of the call).
Missing == "<missing>"

Threads == {1, 2}
Users == {"u1", "u2"}
SessionIds == {"s1", "s2"}

\* Byte strings are sequences of bytes.
Bytes == {"A", "B", "C"}

\* int(s) of Python on the strings the model submits: the decimal strings
\* parse, anything else raises ValueError.
DecimalStrings == {"-1", "0", "1", "2", "3"}

IntValue(s) ==
  CASE s = "-1" -> -1
    [] s = "0" -> 0
    [] s = "1" -> 1
    [] s = "2" -> 2
    [] s = "3" -> 3

\* The empty dict.
EmptyDict == [k \in {} |-> 0]

\* d[k] = v of a dict: k is added or overwritten.
DictPut(d, k, v) == [x \in (DOMAIN d) \cup {k} |-> IF x = k THEN v ELSE d[x]]

\* del d[k].
DictDel(d, k) == [x \in (DOMAIN d) \ {k} |-> d[x]]

\* ------------------------------------------------------------------ state
VARIABLES
  chunk_storage,      \* _chunk_storage: upload_id -> entry (a dict)
  practice_sessions,  \* db.practice_sessions: session id -> document
  vercel_configured,  \* vercel_blob_service.configured, fixed at start-up
  tempfiles,          \* temp files on disk: path (1..) -> content or Unlinked
  uploads,            \* calls that entered a storage service, in order
  pc,                 \* per request thread: the handler's position
  req,                \* per request thread: the HTTP request being served
  loc,                \* per request thread: the handler's local variables
  resp,               \* per request thread: the response returned
  arrivals,           \* history: per table entry, the fragments stored so far
  disturbed,          \* history: an entry of the request's upload was deleted
  prev,               \* history: per thread, the request it served before
  served,             \* requests begun so far (bounds a run)
  users,              \* db.users: _id -> document
  now,                \* datetime.utcnow()
  token_calls,        \* calls that reached the token endpoint, in order
  call,               \* per request thread: the credential handler's locals
  api_calls,          \* calls that reached the Slides/Drive API, in order
  lang_cache,         \* the LangCache store: prompt -> response
  flask_session,      \* the browser's Flask session
  cache_calls,        \* calls of the cache service's methods, in order
  langcache_api_key   \* LANGCACHE_API_KEY is configured, fixed at start-up

vars == <<chunk_storage, practice_sessions, vercel_configured, tempfiles,
          uploads, pc, req, loc, resp, arrivals, disturbed, prev, served,
          users, now, token_calls, call, api_calls, lang_cache,
          flask_session, cache_calls, langcache_api_key>>

\* The state of the credential gate, which upload_chunk leaves alone.
cred_vars == <<users, now, token_calls, call>>

\* The state of the presentation routes and of the browser session, which
\* upload_chunk and the steps of the gate leave alone.
web_vars == <<api_calls, lang_cache, flask_session, cache_calls,
              langcache_api_key>>

\* The state of the upload reassembler, which the credential handlers
\* leave alone.
upload_vars == <<chunk_storage, practice_sessions, vercel_configured,
                 tempfiles, uploads, req, loc, arrivals, disturbed, prev>>

Unlinked == <<"unlinked">>

NoRequest ==
  [user |-> "", session_id |-> "", has_chunk |-> FALSE, data |-> <<>>,
   chunkIndex |-> Missing, totalChunks |-> Missing, uploadId |-> Missing,
   isLastChunk |-> Missing]

\* The entry upload_chunk allocates for an unknown upload_id.
NewEntry(total_chunks, session_id, user) ==
  [chunks |-> EmptyDict, total |-> total_chunks, session_id |-> session_id,
   user_id |-> user]

\* The handler's locals before any is assigned.  request_no, table_before,
\* stored, received, route and sessions_before are history: the number of
\* the request, the table when the request arrived, whether the request's
\* chunk was stored, the fragments that had arrived for the entry when
\* `storage` was read, the view that serves the request, and the practice
\* sessions when the request arrived.
NoLocals ==
  [chunk_index |-> 0, total_chunks |-> 0, upload_id |-> "",
   is_last_chunk |-> FALSE, storage |-> NewEntry(0, "", ""),
   combined_data |-> <<>>, temp_path |-> 0, result |-> "", e |-> "",
   request_no |-> 0, table_before |-> EmptyDict, stored |-> FALSE,
   received |-> <<>>, route |-> "", sessions_before |-> EmptyDict]

NoPrevious == [upload_id |-> "", is_last_chunk |-> FALSE, status |-> 0]

NoResponse == [status |-> 0, body |-> [pending |-> TRUE]]

\* ------------------------------------------------------- name resolution
\* Names bound at module level of routes/sessions.py.
sessions_globals ==
  {"Blueprint", "request", "session", "jsonify", "current_app", "ObjectId",
   "PracticeSession", "google_auth_service", "get_drive_service", "datetime",
   "wraps", "sessions_bp", "get_db", "require_auth", "list_sessions",
   "create_session", "get_session", "update_session", "complete_session",
   "delete_session", "get_stats", "get_trends", "upload_recording",
   "_chunk_storage", "upload_chunk"}

\* Names upload_chunk binds before it reaches the upload block: its
\* parameters, its three imports and its assignments.
upload_chunk_locals ==
  {"user", "session_id", "tempfile", "os", "cloudinary_service", "db",
   "practice_session", "chunk", "chunk_index", "total_chunks", "upload_id",
   "is_last_chunk", "storage", "combined_data", "i", "temp", "temp_path"}

\* A name the upload block of upload_chunk reads is looked up in the
\* function's locals, then in the module's globals; otherwise NameError.
NameBound(name) == name \in upload_chunk_locals \cup sessions_globals

\* Methods of CloudinaryService.
CloudinaryServiceMethods ==
  {"_configure", "upload_video", "get_player_url", "get_video_url",
   "delete_video", "get_video_details"}

\* ----------------------------------------------------------- reassembly
\* The loop `for i in range(storage['total'])` from i on, appending the
\* chunk stored at i when there is one.
RECURSIVE CombineFrom(_, _, _)
CombineFrom(storage, i, combined_data) ==
  IF i >= storage.total
    THEN combined_data
    ELSE CombineFrom(storage, i + 1,
                     IF i \in DOMAIN storage.chunks
                       THEN combined_data \o storage.chunks[i]
                       ELSE combined_data)

\* Faulty variant: the loop starts at index 1.
CombineSkipsFirst(storage) == CombineFrom(storage, 1, <<>>)

Combine(storage) == CombineFrom(storage, 0, <<>>)

\* Faulty variant: the form field taken for its truth value.
IsLastChunkTruthy(field) == (IF field = Missing THEN "false" ELSE field) # ""

\* is_last_chunk: the form field compared with the string 'true'.
IsLastChunk(field) == (IF field = Missing THEN "false" ELSE field) = "true"

\* The parse of the two integer fields succeeds.
FormParses(r) ==
  /\ r.chunkIndex = Missing \/ r.chunkIndex \in DecimalStrings
  /\ r.totalChunks = Missing \/ r.totalChunks \in DecimalStrings

ChunkIndexOf(r) == IF r.chunkIndex = Missing THEN 0 ELSE IntValue(r.chunkIndex)
TotalChunksOf(r) == IF r.totalChunks = Missing THEN 1 ELSE IntValue(r.totalChunks)
UploadIdOf(r) == IF r.uploadId = Missing THEN r.session_id ELSE r.uploadId

\* A document of db.practice_sessions (PracticeSession.create_document):
\* its owner, and the fields the session routes write.
SessionDoc(user) ==
  [user_id |-> user, recording_url |-> <<>>, recording_storage |-> "",
   metrics |-> <<>>, ended_at |-> <<>>]

\* Faulty variant: the session is looked up by its id alone.
FindSessionOfAnyUser(db, session_id, user) == session_id \in DOMAIN db

\* db.practice_sessions.find_one({'_id': session_id, 'user_id': user}).
FindSession(db, session_id, user) ==
  session_id \in DOMAIN db /\ db[session_id].user_id = user

\* --------------------------------------------------------------- responses
\* An exception that leaves the view function: Flask answers 500.
Unhandled(exc) == [status |-> 500, body |-> [unhandled |-> exc]]

SessionNotFound == [status |-> 404, body |-> [error |-> "Session not found"]]
NoChunkProvided == [status |-> 400, body |-> [error |-> "No chunk provided"]]
\* Faulty variant: the error body without the status code.
ErrorResponseNoStatus(msg) == [status |-> 200, body |-> [error |-> msg]]

ErrorResponse(msg) == [status |-> 500, body |-> [error |-> msg]]

\* Faulty variant: the intermediate answer reports the upload complete.
ChunkReceivedComplete(chunk_index) ==
  [status |-> 200,
   body |-> [success |-> TRUE, chunkReceived |-> chunk_index,
             complete |-> TRUE]]

ChunkReceived(chunk_index) ==
  [status |-> 200,
   body |-> [success |-> TRUE, chunkReceived |-> chunk_index,
             complete |-> FALSE]]

UploadComplete(url) ==
  [status |-> 200,
   body |-> [success |-> TRUE, complete |-> TRUE, recording |-> [url |-> url]]]

\* The URL a storage service answers for a recording.
RecordingUrl(service, session_id) == <<service, session_id>>

\* ------------------------------------------------------ credential gate
\* Python's None; an object is the one-element tuple of its value, and a
\* token a tuple that starts with its kind, so that None compares with
\* every value a field holds.
None == <<>>

\* bool(v) of a document field: None is false, a token or a datetime true.
Truthy(v) == v # None

\* The datetime at clock time n.
At(n) == <<n>>

\* The refresh token Google issued to user u, and the n-th access token
\* issued for that refresh token (0: by the OAuth callback).
RefreshTokenOf(u) == <<"refresh", u>>
AccessToken(refresh_token, n) == <<"access", refresh_token[2], n>>

\* A document of db.users (User.create_document and the OAuth callback):
\* the three credential fields, and the fields no refresh touches.
UserDoc(id, access_token, refresh_token, token_expiry) ==
  [_id |-> id,
   google_id |-> IF Truthy(access_token) THEN <<"google", id>> ELSE None,
   email |-> <<"email", id>>,
   access_token |-> access_token, refresh_token |-> refresh_token,
   token_expiry |-> token_expiry, updated_at |-> At(0)]

NoDoc == UserDoc("", None, None, None)

\* new_tokens before refresh_access_token returned.
NoTokens == [access_token |-> None, token_expiry |-> None]

\* refresh_access_token: the n-th call of the token endpoint that succeeds
\* answers a new access token and its expiry.
refresh_access_token(refresh_token, n, expiry) ==
  [access_token |-> AccessToken(refresh_token, n), token_expiry |-> At(expiry)]

\* Faulty variant: any expiry counts as passed, whatever the clock says.
StaleIgnoresClock(token_expiry, utcnow) == Truthy(token_expiry)

\* `if token_expiry and token_expiry <= datetime.utcnow():`.
Stale(token_expiry, utcnow) ==
  Truthy(token_expiry) /\ token_expiry[1] <= utcnow

\* Credentials(token=user_doc.get('access_token'),
\*             refresh_token=user_doc.get('refresh_token'), ...).
Credentials(user_doc) ==
  [token |-> user_doc.access_token, refresh_token |-> user_doc.refresh_token]

\* Faulty variant: the except clause falls through to the final return.
ExceptReturnsCredentials(user_doc) == <<Credentials(user_doc)>>

\* `except Exception as e: ... return None` of the gate.
ExceptReturn(user_doc) == None

\* $set of a document: the named fields are written, the others kept.
SetFields(doc, set) ==
  [f \in (DOMAIN doc) \cup (DOMAIN set) |->
     IF f \in DOMAIN set THEN set[f] ELSE doc[f]]

\* Faulty variant: the update is applied to every document.
UpdateMany(coll, id, set) == [x \in DOMAIN coll |-> SetFields(coll[x], set)]

\* db.users.update_one({'_id': id}, {'$set': set}): no upsert.
UpdateOne(coll, id, set) ==
  IF id \in DOMAIN coll
    THEN [coll EXCEPT ![id] = SetFields(coll[id], set)]
    ELSE coll

\* Faulty variant: the gate persists the access token only.
GateSetAccessTokenOnly(new_tokens) ==
  [access_token |-> new_tokens.access_token]

\* The $set document of the gate.
GateSet(new_tokens) ==
  [access_token |-> new_tokens.access_token,
   token_expiry |-> new_tokens.token_expiry]

\* The $set document of POST /auth/refresh.
RouteSet(new_tokens, utcnow) ==
  [access_token |-> new_tokens.access_token,
   token_expiry |-> new_tokens.token_expiry,
   updated_at |-> At(utcnow)]

\* The locals of a credential handler before any is assigned.  request_no,
\* loaded, checked_at, stale, users_before and overlapped are history: the
\* number of the request, the document find_one answered, the clock and the
\* outcome of the expiry test, the user store when the request arrived, and
\* whether another request was in flight during this one.
NoCall ==
  [route |-> "", user_id |-> "", user_doc |-> NoDoc, loaded |-> NoDoc,
   refresh_token |-> None, new_tokens |-> NoTokens, credentials |-> None,
   request_no |-> 0, checked_at |-> 0, stale |-> FALSE,
   users_before |-> EmptyDict, overlapped |-> FALSE,
   presentation_id |-> ""]

AuthenticationRequired ==
  [status |-> 401, body |-> [error |-> "Authentication required"]]
UserNotFound == [status |-> 401, body |-> [error |-> "User not found"]]
InvalidCredentials ==
  [status |-> 401,
   body |-> [error |-> "Invalid credentials, please re-authenticate"]]
NotAuthenticated == [status |-> 401, body |-> [error |-> "Not authenticated"]]
CannotRefresh == [status |-> 400, body |-> [error |-> "Cannot refresh token"]]
RefreshFailed ==
  [status |-> 500, body |-> [error |-> "Failed to refresh token"]]
RefreshSucceeded == [status |-> 200, body |-> [success |-> TRUE]]

\* `return f(user, credentials, ...)`: the view runs with the credentials.
ViewCalled(credentials) == [status |-> 200, body |-> [view |-> credentials]]

\* Answers of write_feedback_to_slides (routes/analyze.py).
IdsRequired ==
  [status |-> 400,
   body |-> [error |-> "presentationId and slideId are required"]]
InvalidCredentialsAnalyze ==
  [status |-> 401, body |-> [error |-> "Invalid credentials"]]
FeedbackWritten ==
  [status |-> 200,
   body |-> [success |-> TRUE, message |-> "Feedback written to speaker notes"]]
WriteToSlidesFailed ==
  [status |-> 500, body |-> [error |-> "Failed to write to slides"]]
WriteFeedbackFailed ==
  [status |-> 500, body |-> [error |-> "Failed to write feedback to slides"]]

\* Faulty variant: require_auth calls the view whatever the gate returned.
AfterGateAlwaysCalls(credentials) == ViewCalled(credentials)

\* require_auth after the gate returned: `if not credentials:` answers 401,
\* otherwise the view is called.
AfterGate(credentials) ==
  IF credentials = None THEN InvalidCredentials
                        ELSE ViewCalled(credentials[1])

\* ------------------------------------------------- presentation cache
PresentationIds == {"p1", "p2"}

\* The views of routes/presentations.py that use the cache service.
PresentationViews ==
  {"get_presentation", "refresh_presentation", "write_feedback",
   "clear_cache"}

\* f"presentation:{user_id}:{presentation_id}" and
\* f"presentations_list:{user_id}".
PresentationPrompt(user_id, presentation_id) ==
  <<"presentation", user_id, presentation_id>>
PresentationsListPrompt(user_id) == <<"presentations_list", user_id, "">>

\* json.dumps(data) is a string, non-empty whatever data is; json.loads
\* gives the data back. The Python dict {} and list [] are <<>>.
Dumps(data) == <<"json", data>>
Loads(response) == response[2]

\* The outcomes of a call of lang_cache.search or lang_cache.set: without
\* an API key there is no client and no call; with one the call succeeds
\* or raises.
CacheOutcomes == IF langcache_api_key THEN {"ok", "raises"} ELSE {"no_client"}

\* CacheService.get_presentation when the search ended with `outcome`: the
\* hit whose prompt is the prompt searched for and whose response is not
\* empty, decoded.
CacheGetPresentation(cache, presentation_id, user_id, outcome) ==
  LET prompt == PresentationPrompt(user_id, presentation_id)
  IN  IF outcome # "ok" THEN None
      ELSE IF prompt \in DOMAIN cache /\ cache[prompt] # <<>>
        THEN Loads(cache[prompt])
      ELSE None

\* lang_cache.set(prompt=prompt, response=json.dumps(data)) when the call
\* ended with `outcome`; the except clause swallows a failure.
CacheSet(cache, prompt, data, outcome) ==
  IF outcome = "ok" THEN DictPut(cache, prompt, Dumps(data)) ELSE cache

\* CacheService.clear_user_cache: set_user_presentations_list(user_id, []).
ClearUserCache(cache, user_id, outcome) ==
  CacheSet(cache, PresentationsListPrompt(user_id), <<>>, outcome)

\* CacheService.invalidate_presentation: set_presentation(..., {}).
InvalidatePresentation(cache, presentation_id, user_id, outcome) ==
  CacheSet(cache, PresentationPrompt(user_id, presentation_id), <<>>, outcome)

\* A call of a cache service method that writes, as the log keeps it, with
\* what the method returned: True when the set call ended with "ok".
CacheCall(request_no, method, prompt, outcome) ==
  [request_no |-> request_no, method |-> method, prompt |-> prompt,
   stored |-> outcome = "ok"]

\* Answers of the presentation views.
PresentationAnswer(presentation, flag, value) ==
  [status |-> 200,
   body |-> [presentation |-> presentation, flag |-> flag, value |-> value]]
GetPresentationFailed ==
  [status |-> 500, body |-> [error |-> "Failed to get presentation"]]
RefreshPresentationFailed ==
  [status |-> 500, body |-> [error |-> "Failed to refresh presentation"]]
FeedbackFieldsRequired ==
  [status |-> 400, body |-> [error |-> "slideId and feedback are required"]]
FeedbackAdded ==
  [status |-> 200,
   body |-> [success |-> TRUE, message |-> "Feedback added to speaker notes"]]
UpdateSpeakerNotesFailed ==
  [status |-> 500, body |-> [error |-> "Failed to update speaker notes"]]
WriteFeedbackViewFailed ==
  [status |-> 500, body |-> [error |-> "Failed to write feedback"]]
CacheCleared ==
  [status |-> 200,
   body |-> [success |-> TRUE, message |-> "Cache cleared"]]

\* The Flask session of a browser that is not signed in.
NoSession == [user_id |-> ""]

\* The user store the upload specifications run with.
ConnectedUsers ==
  [u \in Users |->
     UserDoc(u, AccessToken(RefreshTokenOf(u), 0), RefreshTokenOf(u), At(0))]

\* ------------------------------------------------------------------ Init
Init ==
  /\ chunk_storage = EmptyDict
  /\ practice_sessions =
       [s \in SessionIds |->
          SessionDoc(IF s = "s1" THEN "u1" ELSE "u2")]
  /\ vercel_configured \in BOOLEAN
  /\ tempfiles = <<>>
  /\ uploads = <<>>
  /\ pc = [t \in Threads |-> "idle"]
  /\ req = [t \in Threads |-> NoRequest]
  /\ loc = [t \in Threads |-> NoLocals]
  /\ resp = [t \in Threads |-> NoResponse]
  /\ arrivals = EmptyDict
  /\ disturbed = [t \in Threads |-> FALSE]
  /\ prev = [t \in Threads |-> NoPrevious]
  /\ served = 0
  /\ users = ConnectedUsers
  /\ now = 1
  /\ token_calls = <<>>
  /\ call = [t \in Threads |-> NoCall]
  /\ api_calls = <<>>
  /\ lang_cache = EmptyDict
  /\ flask_session = NoSession
  /\ cache_calls = <<>>
  /\ langcache_api_key = FALSE

\* ---------------------------------------------------------------- actions
\* A request r reaches upload_chunk on thread t: the session lookup, the
\* 'chunk' file test and the parse of the form fields.
Begin(t, Requests, max) ==
  /\ pc[t] \in {"idle", "done"}
  /\ served < max
  /\ \E r \in Requests :
       /\ req' = [req EXCEPT ![t] = r]
       /\ IF ~FindSession(practice_sessions, r.session_id, r.user)
            THEN /\ resp' = [resp EXCEPT ![t] = SessionNotFound]
                 /\ pc' = [pc EXCEPT ![t] = "done"]
                 /\ loc' = [loc EXCEPT ![t] =
                              [NoLocals EXCEPT
                                 !.request_no = served + 1,
                                 !.route = "upload_chunk",
                                 !.sessions_before = practice_sessions,
                                 !.table_before = chunk_storage]]
          ELSE IF ~r.has_chunk
            THEN /\ resp' = [resp EXCEPT ![t] = NoChunkProvided]
                 /\ pc' = [pc EXCEPT ![t] = "done"]
                 /\ loc' = [loc EXCEPT ![t] =
                              [NoLocals EXCEPT
                                 !.request_no = served + 1,
                                 !.route = "upload_chunk",
                                 !.sessions_before = practice_sessions,
                                 !.table_before = chunk_storage]]
          ELSE IF ~FormParses(r)
            THEN /\ resp' = [resp EXCEPT ![t] = Unhandled("ValueError")]
                 /\ pc' = [pc EXCEPT ![t] = "done"]
                 /\ loc' = [loc EXCEPT ![t] =
                              [NoLocals EXCEPT
                                 !.request_no = served + 1,
                                 !.route = "upload_chunk",
                                 !.sessions_before = practice_sessions,
                                 !.table_before = chunk_storage]]
          ELSE /\ resp' = [resp EXCEPT ![t] = NoResponse]
               /\ pc' = [pc EXCEPT ![t] = "check"]
               /\ loc' = [loc EXCEPT ![t] =
                            [NoLocals EXCEPT
                               !.request_no = served + 1,
                               !.route = "upload_chunk",
                               !.sessions_before = practice_sessions,
                               !.table_before = chunk_storage,
                               !.chunk_index = ChunkIndexOf(r),
                               !.total_chunks = TotalChunksOf(r),
                               !.upload_id = UploadIdOf(r),
                               !.is_last_chunk = IsLastChunk(r.isLastChunk)]]
  /\ served' = served + 1
  /\ disturbed' = [disturbed EXCEPT ![t] = FALSE]
  /\ prev' = [prev EXCEPT ![t] =
                [upload_id |-> loc[t].upload_id,
                 is_last_chunk |-> loc[t].is_last_chunk,
                 status |-> resp[t].status]]
  /\ UNCHANGED <<chunk_storage, practice_sessions, vercel_configured,
                 tempfiles, uploads, arrivals>>
  /\ UNCHANGED cred_vars
  /\ UNCHANGED web_vars

\* `if upload_id not in _chunk_storage:`.
Check(t) ==
  /\ pc[t] = "check"
  /\ pc' = [pc EXCEPT ![t] =
              IF loc[t].upload_id \notin DOMAIN chunk_storage
                THEN "alloc" ELSE "store"]
  /\ UNCHANGED <<chunk_storage, practice_sessions, vercel_configured,
                 tempfiles, uploads, req, loc, resp, arrivals, disturbed,
                 prev, served>>
  /\ UNCHANGED cred_vars
  /\ UNCHANGED web_vars

\* `_chunk_storage[upload_id] = {...}`.
Alloc(t) ==
  /\ pc[t] = "alloc"
  /\ chunk_storage' =
       DictPut(chunk_storage, loc[t].upload_id,
               NewEntry(loc[t].total_chunks, req[t].session_id, req[t].user))
  /\ arrivals' = DictPut(arrivals, loc[t].upload_id, <<>>)
  /\ pc' = [pc EXCEPT ![t] = "store"]
  /\ UNCHANGED <<practice_sessions, vercel_configured, tempfiles, uploads,
                 req, loc, resp, disturbed, prev, served>>
  /\ UNCHANGED cred_vars
  /\ UNCHANGED web_vars

\* Faulty variant: every request finalizes.
FinalizeAlways(is_last_chunk) == TRUE

\* `if is_last_chunk:` after the chunk was stored.
FinalizeNow(is_last_chunk) == is_last_chunk

\* Faulty variant: a fragment also overwrites the total of the entry.
StoreChunkAndTotal(table, locals, data) ==
  [table EXCEPT
     ![locals.upload_id].chunks = DictPut(@, locals.chunk_index, data),
     ![locals.upload_id].total = locals.total_chunks]

\* Faulty variant: a chunk index that is already stored keeps its payload.
StoreChunkKeepsFirst(table, locals, data) ==
  [table EXCEPT
     ![locals.upload_id].chunks =
        IF locals.chunk_index \in DOMAIN @
          THEN @ ELSE DictPut(@, locals.chunk_index, data)]

\* `_chunk_storage[upload_id]['chunks'][chunk_index] = chunk.read()` on the
\* table, for the locals of the request.
StoreChunk(table, locals, data) ==
  [table EXCEPT
     ![locals.upload_id].chunks = DictPut(@, locals.chunk_index, data)]

\* The store of the request's chunk, and for a request that is not the last
\* chunk the return that follows it.
Store(t) ==
  /\ pc[t] = "store"
  /\ IF loc[t].upload_id \notin DOMAIN chunk_storage
       THEN /\ resp' = [resp EXCEPT ![t] = Unhandled("KeyError")]
            /\ pc' = [pc EXCEPT ![t] = "done"]
            /\ UNCHANGED <<chunk_storage, arrivals, loc>>
       ELSE /\ chunk_storage' = StoreChunk(chunk_storage, loc[t], req[t].data)
            /\ arrivals' =
                 [arrivals EXCEPT ![loc[t].upload_id] =
                    Append(@, [index |-> loc[t].chunk_index,
                               data |-> req[t].data,
                               total_chunks |-> loc[t].total_chunks,
                               user |-> req[t].user])]
            /\ loc' = [loc EXCEPT ![t].stored = TRUE]
            /\ IF FinalizeNow(loc[t].is_last_chunk)
                 THEN /\ pc' = [pc EXCEPT ![t] = "combine"]
                      /\ UNCHANGED resp
                 ELSE /\ pc' = [pc EXCEPT ![t] = "done"]
                      /\ resp' = [resp EXCEPT ![t] =
                                    ChunkReceived(loc[t].chunk_index)]
  /\ UNCHANGED <<practice_sessions, vercel_configured, tempfiles, uploads,
                 req, disturbed, prev, served>>
  /\ UNCHANGED cred_vars
  /\ UNCHANGED web_vars

\* `storage = _chunk_storage[upload_id]` and the loop that combines the
\* chunks; a KeyError is caught by the handler's except clause.
CombineChunks(t) ==
  /\ pc[t] = "combine"
  /\ IF loc[t].upload_id \notin DOMAIN chunk_storage
       THEN /\ loc' = [loc EXCEPT ![t].e = "KeyError"]
            /\ pc' = [pc EXCEPT ![t] = "except"]
       ELSE /\ loc' = [loc EXCEPT
                 ![t].storage = chunk_storage[loc[t].upload_id],
                 ![t].received = arrivals[loc[t].upload_id],
                 ![t].combined_data = Combine(chunk_storage[loc[t].upload_id])]
            /\ pc' = [pc EXCEPT ![t] = "tempfile"]
  /\ UNCHANGED <<chunk_storage, practice_sessions, vercel_configured,
                 tempfiles, uploads, req, resp, arrivals, disturbed, prev,
                 served>>
  /\ UNCHANGED cred_vars
  /\ UNCHANGED web_vars

\* `with tempfile.NamedTemporaryFile(delete=False, ...) as temp:` writes the
\* combined data to a new file that stays on disk until it is unlinked.
TempFile(t) ==
  /\ pc[t] = "tempfile"
  /\ tempfiles' = Append(tempfiles, loc[t].combined_data)
  /\ loc' = [loc EXCEPT ![t].temp_path = Len(tempfiles) + 1]
  /\ pc' = [pc EXCEPT ![t] = "upload"]
  /\ UNCHANGED <<chunk_storage, practice_sessions, vercel_configured,
                 uploads, req, resp, arrivals, disturbed, prev, served>>
  /\ UNCHANGED cred_vars
  /\ UNCHANGED web_vars

\* The clean-up and the answer after a storage service returned `outcome`
\* ("ok" or "error"): os.unlink, del _chunk_storage[upload_id], the
\* 'error' in result test, the update of the session document, the response.
AfterUpload(t, service, outcome) ==
  /\ tempfiles' = [tempfiles EXCEPT ![loc[t].temp_path] = Unlinked]
  /\ IF loc[t].upload_id \notin DOMAIN chunk_storage
       THEN /\ loc' = [loc EXCEPT ![t].e = "KeyError",
                                   ![t].result = outcome]
            /\ pc' = [pc EXCEPT ![t] = "except"]
            /\ UNCHANGED <<chunk_storage, arrivals, disturbed,
                           practice_sessions, resp>>
       ELSE /\ chunk_storage' = DictDel(chunk_storage, loc[t].upload_id)
            /\ arrivals' = DictDel(arrivals, loc[t].upload_id)
            /\ disturbed' =
                 [u \in Threads |->
                    disturbed[u] \/ loc[u].upload_id = loc[t].upload_id]
            /\ pc' = [pc EXCEPT ![t] = "done"]
            /\ loc' = [loc EXCEPT ![t].result = outcome]
            /\ IF outcome = "error"
                 THEN /\ resp' = [resp EXCEPT ![t] =
                                    ErrorResponse("upload failed")]
                      /\ UNCHANGED practice_sessions
                 ELSE /\ practice_sessions' =
                           [practice_sessions EXCEPT
                              ![req[t].session_id].recording_url =
                                 RecordingUrl(service, req[t].session_id),
                              ![req[t].session_id].recording_storage = service]
                      /\ resp' = [resp EXCEPT ![t] =
                                    UploadComplete(
                                      RecordingUrl(service, req[t].session_id))]

\* The call that enters storage service `service` with the temp file.
UploaderCall(t, service) ==
  [service |-> service, content |-> tempfiles[loc[t].temp_path],
   session_id |-> req[t].session_id, user_id |-> loc[t].storage.user_id,
   request_no |-> loc[t].request_no]

\* The upload block: `if vercel_blob_service.configured:` and the call of
\* the storage service, then the clean-up and the answer.  Reading a name
\* that is bound neither in the function nor in the module raises
\* NameError; calling a method the service does not have raises
\* AttributeError; both are caught by the handler's except clause.
Upload(t) ==
  /\ pc[t] = "upload"
  /\ IF ~NameBound("vercel_blob_service")
       THEN /\ loc' = [loc EXCEPT ![t].e = "NameError"]
            /\ pc' = [pc EXCEPT ![t] = "except"]
            /\ UNCHANGED <<chunk_storage, practice_sessions, tempfiles,
                           uploads, resp, arrivals, disturbed>>
     ELSE IF vercel_configured
       THEN /\ uploads' = Append(uploads, UploaderCall(t, "vercel_blob"))
            /\ \E outcome \in {"ok", "error"} :
                 AfterUpload(t, "vercel_blob", outcome)
     ELSE IF "upload_video_chunked" \notin CloudinaryServiceMethods
       THEN /\ loc' = [loc EXCEPT ![t].e = "AttributeError"]
            /\ pc' = [pc EXCEPT ![t] = "except"]
            /\ UNCHANGED <<chunk_storage, practice_sessions, tempfiles,
                           uploads, resp, arrivals, disturbed>>
     ELSE /\ uploads' = Append(uploads, UploaderCall(t, "cloudinary"))
          /\ \E outcome \in {"ok", "error"} :
               AfterUpload(t, "cloudinary", outcome)
  /\ UNCHANGED <<vercel_configured, req, prev, served>>
  /\ UNCHANGED cred_vars
  /\ UNCHANGED web_vars

\* Faulty variant: the except clause empties the table.
ExceptCleanupClearsTable(table, upload_id) == EmptyDict

\* Faulty variant: the except clause leaves the entry in the table.
ExceptCleanupKeeps(table, upload_id) == table

\* `if upload_id in _chunk_storage: del _chunk_storage[upload_id]` of the
\* except clause, on a table.
ExceptCleanup(table, upload_id) ==
  IF upload_id \in DOMAIN table THEN DictDel(table, upload_id) ELSE table

\* `except Exception as e:` of the finalization: the entry is deleted when
\* it is there, and the error is answered.
Except(t) ==
  /\ pc[t] = "except"
  /\ chunk_storage' = ExceptCleanup(chunk_storage, loc[t].upload_id)
  /\ arrivals' = [u \in DOMAIN chunk_storage' |-> arrivals[u]]
  /\ disturbed' =
       [u \in Threads |->
          \/ disturbed[u]
          \/ /\ loc[u].upload_id = loc[t].upload_id
             /\ chunk_storage' # chunk_storage]
  /\ resp' = [resp EXCEPT ![t] = ErrorResponse(loc[t].e)]
  /\ pc' = [pc EXCEPT ![t] = "done"]
  /\ UNCHANGED <<practice_sessions, vercel_configured, tempfiles, uploads,
                 req, loc, prev, served>>
  /\ UNCHANGED cred_vars
  /\ UNCHANGED web_vars

\* One step of the handler on thread t, after the request was received.
Step(t) ==
  \/ Check(t)
  \/ Alloc(t)
  \/ Store(t)
  \/ CombineChunks(t)
  \/ TempFile(t)
  \/ Upload(t)
  \/ Except(t)

\* ------------------------------------------------------- session routes
\* The session routes below are modelled for requests served one at a
\* time: a handler is one step, taken for a request of Requests that
\* require_auth passed on with its user.

\* A request for /sessions/<session_id> by a signed-in user.
SessionRequests ==
  {[NoRequest EXCEPT !.user = u, !.session_id = sid] :
     u \in Users, sid \in SessionIds}

\* Request r arrives on thread t, as request number served + 1.
Serve(t, r, max) ==
  /\ pc[t] \in {"idle", "done"}
  /\ served < max
  /\ req' = [req EXCEPT ![t] = r]
  /\ pc' = [pc EXCEPT ![t] = "done"]
  /\ served' = served + 1
  /\ disturbed' = [disturbed EXCEPT ![t] = FALSE]
  /\ prev' = [prev EXCEPT ![t] =
                [upload_id |-> loc[t].upload_id,
                 is_last_chunk |-> loc[t].is_last_chunk,
                 status |-> resp[t].status]]

\* The locals of a request that view `route` serves.
LocalsOf(route) ==
  [NoLocals EXCEPT !.route = route, !.request_no = served + 1,
                   !.table_before = chunk_storage,
                   !.sessions_before = practice_sessions]

\* PracticeSession.to_dict of the document with id session_id.
ToDict(session_id, doc) ==
  [id |-> session_id, metrics |-> doc.metrics, endedAt |-> doc.ended_at,
   recordingUrl |-> doc.recording_url]

SessionAnswer(session_id, doc) ==
  [status |-> 200, body |-> [session |-> ToDict(session_id, doc)]]

SessionDeleted == [status |-> 200, body |-> [success |-> TRUE]]
NoRecordingProvided ==
  [status |-> 400, body |-> [error |-> "No recording file provided"]]
NoFileSelected == [status |-> 400, body |-> [error |-> "No file selected"]]
UploadRecordingFailed ==
  [status |-> 500, body |-> [error |-> "Failed to upload recording"]]
RecordingUploaded(storage_type, url) ==
  [status |-> 200,
   body |-> [success |-> TRUE, storage |-> storage_type,
             recording |-> [url |-> url]]]

\* get_session.
GetSession(t, Requests, max) ==
  /\ \E r \in Requests :
       /\ Serve(t, r, max)
       /\ resp' = [resp EXCEPT ![t] =
                     IF ~FindSession(practice_sessions, r.session_id, r.user)
                       THEN SessionNotFound
                       ELSE SessionAnswer(r.session_id,
                                          practice_sessions[r.session_id])]
  /\ loc' = [loc EXCEPT ![t] = LocalsOf("get_session")]
  /\ UNCHANGED <<chunk_storage, practice_sessions, vercel_configured,
                 tempfiles, uploads, arrivals>>
  /\ UNCHANGED cred_vars
  /\ UNCHANGED web_vars

\* update_session: the JSON body is missing ("none": request.get_json()
\* answers None and `'metrics' in data` raises TypeError), has none of the
\* fields ("empty") or has metrics.
UpdateSession(t, Requests, max) ==
  /\ \E r \in Requests, json \in {"none", "empty", "metrics"} :
       /\ Serve(t, r, max)
       /\ IF ~FindSession(practice_sessions, r.session_id, r.user)
            THEN /\ resp' = [resp EXCEPT ![t] = SessionNotFound]
                 /\ UNCHANGED practice_sessions
          ELSE IF json = "none"
            THEN /\ resp' = [resp EXCEPT ![t] = Unhandled("TypeError")]
                 /\ UNCHANGED practice_sessions
          ELSE /\ practice_sessions' =
                    IF json = "metrics"
                      THEN [practice_sessions EXCEPT
                              ![r.session_id].metrics = <<"metrics", r.user>>]
                      ELSE practice_sessions
               /\ resp' = [resp EXCEPT ![t] =
                             SessionAnswer(r.session_id,
                                           practice_sessions'[r.session_id])]
  /\ loc' = [loc EXCEPT ![t] = LocalsOf("update_session")]
  /\ UNCHANGED <<chunk_storage, vercel_configured, tempfiles, uploads,
                 arrivals>>
  /\ UNCHANGED cred_vars
  /\ UNCHANGED web_vars

\* complete_session: ended_at is written, and metrics when the body has
\* them.
CompleteSession(t, Requests, max) ==
  /\ \E r \in Requests, json \in {"none", "empty", "metrics"} :
       /\ Serve(t, r, max)
       /\ IF ~FindSession(practice_sessions, r.session_id, r.user)
            THEN /\ resp' = [resp EXCEPT ![t] = SessionNotFound]
                 /\ UNCHANGED practice_sessions
            ELSE /\ practice_sessions' =
                      [practice_sessions EXCEPT
                         ![r.session_id].ended_at = At(now),
                         ![r.session_id].metrics =
                            IF json = "metrics"
                              THEN <<"metrics", r.user>> ELSE @]
                 /\ resp' = [resp EXCEPT ![t] =
                               SessionAnswer(r.session_id,
                                             practice_sessions'[r.session_id])]
  /\ loc' = [loc EXCEPT ![t] = LocalsOf("complete_session")]
  /\ UNCHANGED <<chunk_storage, vercel_configured, tempfiles, uploads,
                 arrivals>>
  /\ UNCHANGED cred_vars
  /\ UNCHANGED web_vars

\* delete_session: delete_one({'_id': session_id, 'user_id': user}).
DeleteSession(t, Requests, max) ==
  /\ \E r \in Requests :
       /\ Serve(t, r, max)
       /\ IF ~FindSession(practice_sessions, r.session_id, r.user)
            THEN /\ resp' = [resp EXCEPT ![t] = SessionNotFound]
                 /\ UNCHANGED practice_sessions
            ELSE /\ practice_sessions' =
                      DictDel(practice_sessions, r.session_id)
                 /\ resp' = [resp EXCEPT ![t] = SessionDeleted]
  /\ loc' = [loc EXCEPT ![t] = LocalsOf("delete_session")]
  /\ UNCHANGED <<chunk_storage, vercel_configured, tempfiles, uploads,
                 arrivals>>
  /\ UNCHANGED cred_vars
  /\ UNCHANGED web_vars

\* Faulty variant: no result counts as an error.
HasErrorNever(result) == FALSE

\* `if 'error' in result:` of upload_recording.
HasError(result) == result = "error"

\* upload_recording after storage service `service` was called with the
\* file of request r: the service raises (the except clause answers 500),
\* or answers a result with or without an error.
RecordingHandedTo(t, r, service) ==
  /\ uploads' =
       Append(uploads,
              [service |-> service, content |-> r.data,
               session_id |-> r.session_id, user_id |-> r.user,
               request_no |-> served + 1])
  /\ \E result \in {"ok", "error", "raises"} :
       /\ loc' = [loc EXCEPT ![t] =
                    [LocalsOf("upload_recording") EXCEPT !.result = result]]
       /\ IF result = "raises"
            THEN /\ resp' = [resp EXCEPT ![t] = UploadRecordingFailed]
                 /\ UNCHANGED practice_sessions
          ELSE IF HasError(result)
            THEN /\ resp' = [resp EXCEPT ![t] =
                               ErrorResponse("upload failed")]
                 /\ UNCHANGED practice_sessions
          ELSE /\ practice_sessions' =
                    [practice_sessions EXCEPT
                       ![r.session_id].recording_url =
                          RecordingUrl(service, r.session_id),
                       ![r.session_id].recording_storage = service]
               /\ resp' = [resp EXCEPT ![t] =
                             RecordingUploaded(
                               service, RecordingUrl(service, r.session_id))]

\* upload_recording: the session lookup, the test of the 'recording' file
\* and of its name, then the upload to Vercel Blob when it is configured
\* and to Cloudinary otherwise (a method CloudinaryService does not have
\* raises AttributeError, which the except clause answers).
UploadRecording(t, Requests, max) ==
  /\ \E r \in {[q EXCEPT !.data = <<"A">>] : q \in Requests},
        file \in {"none", "unnamed", "named"} :
       /\ Serve(t, [r EXCEPT !.has_chunk = file # "none"], max)
       /\ IF ~FindSession(practice_sessions, r.session_id, r.user)
            THEN /\ resp' = [resp EXCEPT ![t] = SessionNotFound]
                 /\ loc' = [loc EXCEPT ![t] = LocalsOf("upload_recording")]
                 /\ UNCHANGED <<practice_sessions, uploads>>
          ELSE IF file = "none"
            THEN /\ resp' = [resp EXCEPT ![t] = NoRecordingProvided]
                 /\ loc' = [loc EXCEPT ![t] = LocalsOf("upload_recording")]
                 /\ UNCHANGED <<practice_sessions, uploads>>
          ELSE IF file = "unnamed"
            THEN /\ resp' = [resp EXCEPT ![t] = NoFileSelected]
                 /\ loc' = [loc EXCEPT ![t] = LocalsOf("upload_recording")]
                 /\ UNCHANGED <<practice_sessions, uploads>>
          ELSE IF vercel_configured
            THEN RecordingHandedTo(t, r, "vercel_blob")
          ELSE IF "upload_video_chunked" \notin CloudinaryServiceMethods
            THEN /\ resp' = [resp EXCEPT ![t] = UploadRecordingFailed]
                 /\ loc' = [loc EXCEPT ![t] =
                              [LocalsOf("upload_recording") EXCEPT
                                 !.e = "AttributeError"]]
                 /\ UNCHANGED <<practice_sessions, uploads>>
          ELSE RecordingHandedTo(t, r, "cloudinary")
  /\ UNCHANGED <<chunk_storage, vercel_configured, tempfiles, arrivals>>
  /\ UNCHANGED cred_vars
  /\ UNCHANGED web_vars

\* ------------------------------------------------- credential handlers
\* Thread u is serving a request.
InFlight(u) == pc[u] \notin {"idle", "done"}

\* The locals of thread t as request number served + 1 arrives, and the
\* note on every request in flight that another one arrived during it.
Arrive(t, c) ==
  [u \in Threads |->
     IF u = t
       THEN [c EXCEPT !.request_no = served + 1, !.users_before = users,
                      !.overlapped = \E v \in Threads \ {t} : InFlight(v)]
     ELSE IF InFlight(u) THEN [call[u] EXCEPT !.overlapped = TRUE]
     ELSE call[u]]

\* decorated_function of require_auth (routes/presentations.py) up to the
\* call of the gate: the session's user_id, the find_one of the user.
RequireAuth(t, Sessions, max) ==
  /\ pc[t] \in {"idle", "done"}
  /\ served < max
  /\ \E user_id \in Sessions :
       LET c == [NoCall EXCEPT !.route = "presentations",
                               !.user_id = user_id]
       IN  IF user_id = ""
             THEN /\ resp' = [resp EXCEPT ![t] = AuthenticationRequired]
                  /\ pc' = [pc EXCEPT ![t] = "done"]
                  /\ call' = Arrive(t, c)
           ELSE IF user_id \notin DOMAIN users
             THEN /\ resp' = [resp EXCEPT ![t] = UserNotFound]
                  /\ pc' = [pc EXCEPT ![t] = "done"]
                  /\ call' = Arrive(t, c)
           ELSE /\ resp' = [resp EXCEPT ![t] = NoResponse]
                /\ pc' = [pc EXCEPT ![t] = "stale_check"]
                /\ call' = Arrive(t, [c EXCEPT !.user_doc = users[user_id],
                                               !.loaded = users[user_id]])
  /\ served' = served + 1
  /\ UNCHANGED <<users, now, token_calls>>
  /\ UNCHANGED upload_vars
  /\ UNCHANGED web_vars

\* The expiry test of the gate and, for an expired token, the read of the
\* refresh token: without one the gate goes on to its final return.
StaleCheck(t) ==
  /\ pc[t] = "stale_check"
  /\ LET stale == Stale(call[t].user_doc.token_expiry, now)
         refresh_token == call[t].user_doc.refresh_token
     IN  /\ call' = [call EXCEPT
                       ![t].checked_at = now,
                       ![t].stale = stale,
                       ![t].refresh_token =
                          IF stale THEN refresh_token ELSE None]
         /\ pc' = [pc EXCEPT ![t] =
                     IF stale /\ Truthy(refresh_token)
                       THEN "gate_refresh" ELSE "gate_return"]
  /\ UNCHANGED <<users, now, token_calls, resp, served>>
  /\ UNCHANGED upload_vars
  /\ UNCHANGED web_vars

\* The caller of the gate on thread t after the gate returned
\* `credentials`: require_auth of routes/presentations.py answers 401 or
\* calls the view; write_feedback_to_slides answers 401 or goes on to
\* generate the feedback and write it.
Resume(t, credentials) ==
  IF call[t].route = "analyze"
    THEN IF credentials = None
           THEN /\ resp' = [resp EXCEPT ![t] = InvalidCredentialsAnalyze]
                /\ pc' = [pc EXCEPT ![t] = "done"]
           ELSE /\ pc' = [pc EXCEPT ![t] = "write_to_slides"]
                /\ UNCHANGED resp
  ELSE IF call[t].route \in PresentationViews /\ credentials # None
    THEN /\ pc' = [pc EXCEPT ![t] = "view"]
         /\ UNCHANGED resp
    ELSE /\ resp' = [resp EXCEPT ![t] = AfterGate(credentials)]
         /\ pc' = [pc EXCEPT ![t] = "done"]

\* The call of the token endpoint by thread t's request, as the log keeps
\* it.
TokenCall(t, refresh_token, outcome) ==
  [request_no |-> call[t].request_no, refresh_token |-> refresh_token,
   outcome |-> outcome]

\* `new_tokens = self.refresh_access_token(refresh_token)` of the gate: the
\* token endpoint answers or the call raises; the except clause returns to
\* require_auth.
GateRefresh(t) ==
  /\ pc[t] = "gate_refresh"
  /\ \E outcome \in {"ok", "error"}, lifetime \in 1 .. 2 :
       /\ token_calls' =
            Append(token_calls, TokenCall(t, call[t].refresh_token, outcome))
       /\ IF outcome = "ok"
            THEN /\ call' = [call EXCEPT ![t].new_tokens =
                               refresh_access_token(call[t].refresh_token,
                                                    Len(token_calls) + 1,
                                                    now + lifetime)]
                 /\ pc' = [pc EXCEPT ![t] = "gate_persist"]
                 /\ UNCHANGED resp
            ELSE /\ call' = [call EXCEPT ![t].credentials =
                               ExceptReturn(call[t].user_doc)]
                 /\ Resume(t, ExceptReturn(call[t].user_doc))
  /\ UNCHANGED <<users, now, served>>
  /\ UNCHANGED upload_vars
  /\ UNCHANGED web_vars

\* `db.users.update_one({'_id': user_doc['_id']}, {'$set': ...})` and
\* `user_doc['access_token'] = new_tokens['access_token']`.
GatePersist(t) ==
  /\ pc[t] = "gate_persist"
  /\ users' = UpdateOne(users, call[t].user_doc._id,
                        GateSet(call[t].new_tokens))
  /\ call' = [call EXCEPT ![t].user_doc.access_token =
                call[t].new_tokens.access_token]
  /\ pc' = [pc EXCEPT ![t] = "gate_return"]
  /\ UNCHANGED <<now, token_calls, resp, served>>
  /\ UNCHANGED upload_vars
  /\ UNCHANGED web_vars

\* The final return of the gate, and require_auth after it.
GateReturn(t) ==
  /\ pc[t] = "gate_return"
  /\ call' = [call EXCEPT ![t].credentials =
                <<Credentials(call[t].user_doc)>>]
  /\ Resume(t, <<Credentials(call[t].user_doc)>>)
  /\ UNCHANGED <<users, now, token_calls, served>>
  /\ UNCHANGED upload_vars
  /\ UNCHANGED web_vars

\* refresh_token of routes/auth.py (POST /auth/refresh) up to the try: the
\* session's user_id, the find_one of the user, the refresh token test.
RefreshToken(t, Sessions, max) ==
  /\ pc[t] \in {"idle", "done"}
  /\ served < max
  /\ \E user_id \in Sessions :
       LET c == [NoCall EXCEPT !.route = "refresh", !.user_id = user_id]
       IN  IF user_id = ""
             THEN /\ resp' = [resp EXCEPT ![t] = NotAuthenticated]
                  /\ pc' = [pc EXCEPT ![t] = "done"]
                  /\ call' = Arrive(t, c)
           ELSE IF \/ user_id \notin DOMAIN users
                   \/ ~Truthy(users[user_id].refresh_token)
             THEN /\ resp' = [resp EXCEPT ![t] = CannotRefresh]
                  /\ pc' = [pc EXCEPT ![t] = "done"]
                  /\ call' = Arrive(t, c)
           ELSE /\ resp' = [resp EXCEPT ![t] = NoResponse]
                /\ pc' = [pc EXCEPT ![t] = "route_refresh"]
                /\ call' = Arrive(t, [c EXCEPT
                                        !.user_doc = users[user_id],
                                        !.loaded = users[user_id],
                                        !.refresh_token =
                                           users[user_id].refresh_token])
  /\ served' = served + 1
  /\ UNCHANGED <<users, now, token_calls>>
  /\ UNCHANGED upload_vars
  /\ UNCHANGED web_vars

\* `new_tokens = google_auth_service.refresh_access_token(...)` of the
\* route; the except clause answers 500.
RouteRefresh(t) ==
  /\ pc[t] = "route_refresh"
  /\ \E outcome \in {"ok", "error"}, lifetime \in 1 .. 2 :
       /\ token_calls' =
            Append(token_calls, TokenCall(t, call[t].refresh_token, outcome))
       /\ IF outcome = "ok"
            THEN /\ call' = [call EXCEPT ![t].new_tokens =
                               refresh_access_token(call[t].refresh_token,
                                                    Len(token_calls) + 1,
                                                    now + lifetime)]
                 /\ pc' = [pc EXCEPT ![t] = "route_persist"]
                 /\ UNCHANGED resp
            ELSE /\ resp' = [resp EXCEPT ![t] = RefreshFailed]
                 /\ pc' = [pc EXCEPT ![t] = "done"]
                 /\ UNCHANGED call
  /\ UNCHANGED <<users, now, served>>
  /\ UNCHANGED upload_vars
  /\ UNCHANGED web_vars

\* `db.users.update_one({'_id': ObjectId(user_id)}, {'$set': ...})` of the
\* route, and its answer.
RoutePersist(t) ==
  /\ pc[t] = "route_persist"
  /\ users' = UpdateOne(users, call[t].user_id,
                        RouteSet(call[t].new_tokens, now))
  /\ resp' = [resp EXCEPT ![t] = RefreshSucceeded]
  /\ pc' = [pc EXCEPT ![t] = "done"]
  /\ UNCHANGED <<now, token_calls, call, served>>
  /\ UNCHANGED upload_vars
  /\ UNCHANGED web_vars

\* write_feedback_to_slides (routes/analyze.py) with its require_auth, up
\* to the call of the gate: the session's user_id, the find_one of the
\* user, the test of presentationId and slideId.
WriteFeedbackToSlides(t, Sessions, max) ==
  /\ pc[t] \in {"idle", "done"}
  /\ served < max
  /\ \E user_id \in Sessions, has_ids \in BOOLEAN :
       LET c == [NoCall EXCEPT !.route = "analyze", !.user_id = user_id]
       IN  IF user_id = ""
             THEN /\ resp' = [resp EXCEPT ![t] = AuthenticationRequired]
                  /\ pc' = [pc EXCEPT ![t] = "done"]
                  /\ call' = Arrive(t, c)
           ELSE IF user_id \notin DOMAIN users
             THEN /\ resp' = [resp EXCEPT ![t] = UserNotFound]
                  /\ pc' = [pc EXCEPT ![t] = "done"]
                  /\ call' = Arrive(t, c)
           ELSE IF ~has_ids
             THEN /\ resp' = [resp EXCEPT ![t] = IdsRequired]
                  /\ pc' = [pc EXCEPT ![t] = "done"]
                  /\ call' = Arrive(t, c)
           ELSE /\ resp' = [resp EXCEPT ![t] = NoResponse]
                /\ pc' = [pc EXCEPT ![t] = "stale_check"]
                /\ call' = Arrive(t, [c EXCEPT !.user_doc = users[user_id],
                                               !.loaded = users[user_id]])
  /\ served' = served + 1
  /\ UNCHANGED <<users, now, token_calls>>
  /\ UNCHANGED upload_vars
  /\ UNCHANGED web_vars

\* A call of the Slides/Drive API by thread t's request, as the log keeps
\* it.
ApiCall(t, method, credentials) ==
  [request_no |-> call[t].request_no, method |-> method,
   token |-> credentials.token]

\* write_feedback_to_slides after the gate returned credentials: the
\* feedback is generated (the Gemini call may raise), update_speaker_notes
\* is called with the credentials and answers true or false or raises.
WriteToSlides(t) ==
  /\ pc[t] = "write_to_slides"
  /\ \E outcome \in {"gemini_raises", "true", "false", "raises"} :
       /\ api_calls' =
            IF outcome = "gemini_raises"
              THEN api_calls
              ELSE Append(api_calls,
                          ApiCall(t, "update_speaker_notes",
                                  call[t].credentials[1]))
       /\ resp' = [resp EXCEPT ![t] =
                     CASE outcome = "true" -> FeedbackWritten
                       [] outcome = "false" -> WriteToSlidesFailed
                       [] OTHER -> WriteFeedbackFailed]
  /\ pc' = [pc EXCEPT ![t] = "done"]
  /\ UNCHANGED <<users, now, token_calls, call, served>>
  /\ UNCHANGED <<lang_cache, flask_session, cache_calls, langcache_api_key>>
  /\ UNCHANGED upload_vars

\* ---------------------------------------------------- presentation views
\* decorated_function of require_auth (routes/presentations.py) for a
\* request to one of the views that use the cache, up to the call of the
\* gate. clear_cache has no presentation id in its URL.
ViewRequest(t, Sessions, max) ==
  /\ pc[t] \in {"idle", "done"}
  /\ served < max
  /\ \E user_id \in Sessions, route \in PresentationViews,
        presentation_id \in PresentationIds \cup {""} :
       /\ (presentation_id = "") <=> (route = "clear_cache")
       /\ LET c == [NoCall EXCEPT !.route = route, !.user_id = user_id,
                                  !.presentation_id = presentation_id]
          IN  IF user_id = ""
                THEN /\ resp' = [resp EXCEPT ![t] = AuthenticationRequired]
                     /\ pc' = [pc EXCEPT ![t] = "done"]
                     /\ call' = Arrive(t, c)
              ELSE IF user_id \notin DOMAIN users
                THEN /\ resp' = [resp EXCEPT ![t] = UserNotFound]
                     /\ pc' = [pc EXCEPT ![t] = "done"]
                     /\ call' = Arrive(t, c)
              ELSE /\ resp' = [resp EXCEPT ![t] = NoResponse]
                   /\ pc' = [pc EXCEPT ![t] = "stale_check"]
                   /\ call' = Arrive(t, [c EXCEPT
                                           !.user_doc = users[user_id],
                                           !.loaded = users[user_id]])
  /\ served' = served + 1
  /\ UNCHANGED <<users, now, token_calls>>
  /\ UNCHANGED upload_vars
  /\ UNCHANGED web_vars

\* A call of the Slides API for a presentation by thread t's request, as
\* the log keeps it.
SlidesCall(t, method, outcome) ==
  [request_no |-> call[t].request_no, method |-> method,
   token |-> call[t].credentials[1].token,
   presentation_id |-> call[t].presentation_id, outcome |-> outcome]

\* What slides_service.get_presentation answers for a presentation: its
\* id and the speaker notes as the calls of update_speaker_notes that
\* answered true left them.
SlidesPresentation(presentation_id) ==
  <<presentation_id,
    Len(SelectSeq(api_calls,
                  LAMBDA c : /\ c.method = "update_speaker_notes"
                             /\ c.presentation_id = presentation_id
                             /\ c.outcome = "true"))>>

\* The log after thread t's request called set_presentation for its
\* presentation and the call ended with `outcome`.
LogSetPresentation(log, t, method, outcome) ==
  Append(log,
         CacheCall(call[t].request_no, method,
                   PresentationPrompt(call[t].user_id,
                                      call[t].presentation_id),
                   outcome))

\* get_presentation: the cached data when the cache service answers
\* something truthy, else the presentation from the Slides API, which is
\* cached.
GetPresentation(t) ==
  /\ pc[t] = "view" /\ call[t].route = "get_presentation"
  /\ \E search \in CacheOutcomes :
       LET cached == CacheGetPresentation(lang_cache,
                                          call[t].presentation_id,
                                          call[t].user_id, search)
       IN  IF Truthy(cached)
             THEN /\ resp' = [resp EXCEPT ![t] =
                                PresentationAnswer(cached, "cached", TRUE)]
                  /\ UNCHANGED <<api_calls, lang_cache, cache_calls>>
             ELSE \E fetch \in {"ok", "raises"}, set \in CacheOutcomes :
                    /\ api_calls' =
                         Append(api_calls,
                                SlidesCall(t, "get_presentation", fetch))
                    /\ IF fetch = "raises"
                         THEN /\ resp' = [resp EXCEPT ![t] =
                                            GetPresentationFailed]
                              /\ UNCHANGED <<lang_cache, cache_calls>>
                         ELSE /\ lang_cache' =
                                   CacheSet(lang_cache,
                                            PresentationPrompt(
                                              call[t].user_id,
                                              call[t].presentation_id),
                                            SlidesPresentation(
                                              call[t].presentation_id),
                                            set)
                              /\ cache_calls' =
                                   LogSetPresentation(cache_calls, t,
                                                      "set_presentation", set)
                              /\ resp' = [resp EXCEPT ![t] =
                                            PresentationAnswer(
                                              SlidesPresentation(
                                                call[t].presentation_id),
                                              "cached", FALSE)]
  /\ pc' = [pc EXCEPT ![t] = "done"]
  /\ UNCHANGED <<users, now, token_calls, call, served>>
  /\ UNCHANGED <<flask_session, langcache_api_key>>
  /\ UNCHANGED upload_vars

\* refresh_presentation: invalidate, fetch from the Slides API, cache
\* again.
RefreshPresentation(t) ==
  /\ pc[t] = "view" /\ call[t].route = "refresh_presentation"
  /\ \E invalidate \in CacheOutcomes, fetch \in {"ok", "raises"},
        set \in CacheOutcomes :
       LET invalidated == InvalidatePresentation(lang_cache,
                                                 call[t].presentation_id,
                                                 call[t].user_id, invalidate)
           logged == LogSetPresentation(cache_calls, t,
                                        "invalidate_presentation", invalidate)
       IN  /\ api_calls' =
                Append(api_calls, SlidesCall(t, "get_presentation", fetch))
           /\ IF fetch = "raises"
                THEN /\ lang_cache' = invalidated
                     /\ cache_calls' = logged
                     /\ resp' = [resp EXCEPT ![t] = RefreshPresentationFailed]
                ELSE /\ lang_cache' =
                          CacheSet(invalidated,
                                   PresentationPrompt(call[t].user_id,
                                                      call[t].presentation_id),
                                   SlidesPresentation(call[t].presentation_id),
                                   set)
                     /\ cache_calls' =
                          LogSetPresentation(logged, t, "set_presentation",
                                             set)
                     /\ resp' = [resp EXCEPT ![t] =
                                   PresentationAnswer(
                                     SlidesPresentation(
                                       call[t].presentation_id),
                                     "refreshed", TRUE)]
  /\ pc' = [pc EXCEPT ![t] = "done"]
  /\ UNCHANGED <<users, now, token_calls, call, served>>
  /\ UNCHANGED <<flask_session, langcache_api_key>>
  /\ UNCHANGED upload_vars

\* write_feedback: the JSON body is missing ("none": data.get raises
\* AttributeError outside the try), lacks slideId or feedback ("missing")
\* or has both; update_speaker_notes answers true or false or raises, and
\* after true the cached presentation is invalidated, whatever the
\* invalidation returns.
WriteFeedback(t) ==
  /\ pc[t] = "view" /\ call[t].route = "write_feedback"
  /\ \E json \in {"none", "missing", "ok"} :
       IF json # "ok"
         THEN /\ resp' = [resp EXCEPT ![t] =
                            IF json = "none" THEN Unhandled("AttributeError")
                                             ELSE FeedbackFieldsRequired]
              /\ UNCHANGED <<api_calls, lang_cache, cache_calls>>
         ELSE \E success \in {"true", "false", "raises"},
                 invalidate \in CacheOutcomes :
                /\ api_calls' =
                     Append(api_calls,
                            SlidesCall(t, "update_speaker_notes", success))
                /\ IF success = "true"
                     THEN /\ lang_cache' =
                               InvalidatePresentation(
                                 lang_cache, call[t].presentation_id,
                                 call[t].user_id, invalidate)
                          /\ cache_calls' =
                               LogSetPresentation(cache_calls, t,
                                                  "invalidate_presentation",
                                                  invalidate)
                          /\ resp' = [resp EXCEPT ![t] = FeedbackAdded]
                     ELSE /\ resp' = [resp EXCEPT ![t] =
                                        IF success = "false"
                                          THEN UpdateSpeakerNotesFailed
                                          ELSE WriteFeedbackViewFailed]
                          /\ UNCHANGED <<lang_cache, cache_calls>>
  /\ pc' = [pc EXCEPT ![t] = "done"]
  /\ UNCHANGED <<users, now, token_calls, call, served>>
  /\ UNCHANGED <<flask_session, langcache_api_key>>
  /\ UNCHANGED upload_vars

\* clear_cache: clear_user_cache(user_id), then the answer.
ClearCache(t) ==
  /\ pc[t] = "view" /\ call[t].route = "clear_cache"
  /\ \E set \in CacheOutcomes :
       /\ lang_cache' = ClearUserCache(lang_cache, call[t].user_id, set)
       /\ cache_calls' =
            Append(cache_calls,
                   CacheCall(call[t].request_no, "clear_user_cache",
                             PresentationsListPrompt(call[t].user_id),
                             set))
  /\ resp' = [resp EXCEPT ![t] = CacheCleared]
  /\ pc' = [pc EXCEPT ![t] = "done"]
  /\ UNCHANGED <<users, now, token_calls, call, served>>
  /\ UNCHANGED <<api_calls, flask_session, langcache_api_key>>
  /\ UNCHANGED upload_vars

\* ------------------------------------------------- sign-in and logout
\* The ids db.users can give its documents.
UserIds == Users \cup {"u3"}

\* session['user_id'] = user_id. Of the session's keys only user_id is
\* kept: no route behind require_auth reads another.
SignedIn(user_id) == [user_id |-> user_id]

\* Faulty variant: logout leaves the session as it is.
SessionClearKeeps(session) == session

\* session.clear().
SessionClear(session) == NoSession

\* The session's user_id names a document of db.users: what the
\* decorators' `if not user_id` and `if not user` test.
Authenticated ==
  flask_session.user_id # "" /\ flask_session.user_id \in DOMAIN users

\* The requests to /sessions/<session_id> that the browser's session makes
\* require_auth pass on to a view.
AuthenticatedRequests ==
  {[NoRequest EXCEPT !.user = flask_session.user_id,
                     !.session_id = session_id] :
     session_id \in {x \in SessionIds : Authenticated}}

\* insert_one of a document for person `who`: the store with the document
\* under the next free id.
InsertUser(coll, who, doc) ==
  LET id == CHOOSE x \in UserIds \ DOMAIN coll :
              \A y \in UserIds \ DOMAIN coll : x = who \/ y # who
  IN  DictPut(coll, id,
              [doc EXCEPT !._id = id, !.email = <<"email", who>>])

\* The ids of the documents find_one({'$or': [{'firebase_uid': uid},
\* {'email': email}]}) and find_one({'google_id': ...}) can answer.
FindByEmail(coll, who) ==
  {u \in DOMAIN coll : coll[u].email = <<"email", who>>}
FindByGoogleId(coll, who) ==
  {u \in DOMAIN coll : coll[u].google_id = <<"google", who>>}

\* Answers of the routes of routes/auth.py.
LoggedOut == [status |-> 200, body |-> [logged_out |-> TRUE]]
MissingUserData ==
  [status |-> 400, body |-> [error |-> "Missing user data"]]
Synced(user_id, has_google_token) ==
  [status |-> 200,
   body |-> [success |-> TRUE, user |-> user_id,
             hasGoogleToken |-> has_google_token]]
NoAuthorizationCode ==
  [status |-> 400, body |-> [error |-> "No authorization code"]]
Redirect(query) == [status |-> 302, body |-> [location |-> query]]
AuthStatusAnswer(authenticated) ==
  [status |-> 200, body |-> [authenticated |-> authenticated]]

\* A request to a route of routes/auth.py arrives on thread t.
AuthArrive(t, route, max) ==
  /\ pc[t] \in {"idle", "done"}
  /\ served < max
  /\ call' = Arrive(t, [NoCall EXCEPT !.route = route,
                                      !.user_id = flask_session.user_id])
  /\ pc' = [pc EXCEPT ![t] = "done"]
  /\ served' = served + 1

\* POST /auth/logout.
Logout(t, max) ==
  /\ AuthArrive(t, "logout", max)
  /\ flask_session' = SessionClear(flask_session)
  /\ resp' = [resp EXCEPT ![t] = LoggedOut]
  /\ UNCHANGED <<users, now, token_calls>>
  /\ UNCHANGED <<api_calls, lang_cache, cache_calls, langcache_api_key>>
  /\ UNCHANGED upload_vars

\* POST /auth/firebase-sync for person `who` ("": uid or email is missing):
\* the document found by Firebase uid or email is updated, or a document
\* without Google tokens is inserted, and its id is put in the session.
FirebaseSync(t, max) ==
  /\ AuthArrive(t, "firebase_sync", max)
  /\ \E who \in Users \cup {""} :
       IF who = ""
         THEN /\ resp' = [resp EXCEPT ![t] = MissingUserData]
              /\ UNCHANGED <<users, flask_session>>
       ELSE IF FindByEmail(users, who) # {}
         THEN \E existing \in FindByEmail(users, who) :
                /\ users' = UpdateOne(users, existing,
                                      [updated_at |-> At(now)])
                /\ flask_session' = SignedIn(existing)
                /\ resp' = [resp EXCEPT ![t] =
                              Synced(existing,
                                     Truthy(users[existing].access_token))]
       ELSE /\ UserIds \ DOMAIN users # {}
            /\ users' = InsertUser(users, who,
                                   [UserDoc(who, None, None, None) EXCEPT
                                      !.updated_at = At(now)])
            /\ \E id \in DOMAIN users' \ DOMAIN users :
                 /\ flask_session' = SignedIn(id)
                 /\ resp' = [resp EXCEPT ![t] = Synced(id, FALSE)]
  /\ UNCHANGED <<now, token_calls>>
  /\ UNCHANGED <<api_calls, lang_cache, cache_calls, langcache_api_key>>
  /\ UNCHANGED upload_vars

\* The tokens exchange_code_for_tokens answers for Google account `who`,
\* with or without a refresh token.
ExchangedTokens(who, with_refresh_token, utcnow) ==
  [access_token |-> AccessToken(RefreshTokenOf(who), 0),
   refresh_token |-> IF with_refresh_token THEN RefreshTokenOf(who) ELSE None,
   token_expiry |-> At(utcnow + 1)]

\* GET /auth/callback: Google reports an error, sends no code, or the
\* exchange of the code raises (no write was made); else the tokens are
\* written to the session's user, or to the user with the Google id, or to
\* a new user, and the user's id is put in the session.
GoogleCallback(t, max) ==
  /\ AuthArrive(t, "callback", max)
  /\ \E outcome \in {"error", "no_code", "raises", "ok"}, who \in Users,
        with_refresh_token \in BOOLEAN :
       LET tokens == ExchangedTokens(who, with_refresh_token, now)
           user_id == flask_session.user_id
       IN  IF outcome # "ok"
             THEN /\ resp' = [resp EXCEPT ![t] =
                                CASE outcome = "error" -> Redirect("error")
                                  [] outcome = "no_code" -> NoAuthorizationCode
                                  [] OTHER -> Redirect("error=auth_failed")]
                  /\ UNCHANGED <<users, flask_session>>
           ELSE IF user_id # ""
             THEN /\ users' =
                       UpdateOne(users, user_id,
                                 [google_id |-> <<"google", who>>,
                                  access_token |-> tokens.access_token,
                                  refresh_token |-> tokens.refresh_token,
                                  token_expiry |-> tokens.token_expiry,
                                  updated_at |-> At(now)])
                  /\ flask_session' = SignedIn(user_id)
                  /\ resp' = [resp EXCEPT ![t] =
                                Redirect("google_connected=true")]
           ELSE IF FindByGoogleId(users, who) # {}
             THEN \E existing \in FindByGoogleId(users, who) :
                    /\ users' =
                         UpdateOne(users, existing,
                                   [access_token |-> tokens.access_token,
                                    refresh_token |->
                                      IF Truthy(tokens.refresh_token)
                                        THEN tokens.refresh_token
                                        ELSE users[existing].refresh_token,
                                    token_expiry |-> tokens.token_expiry,
                                    updated_at |-> At(now)])
                    /\ flask_session' = SignedIn(existing)
                    /\ resp' = [resp EXCEPT ![t] =
                                  Redirect("google_connected=true")]
           ELSE /\ UserIds \ DOMAIN users # {}
                /\ users' =
                     InsertUser(users, who,
                                [UserDoc(who, tokens.access_token,
                                         tokens.refresh_token,
                                         tokens.token_expiry) EXCEPT
                                   !.updated_at = At(now)])
                /\ \E id \in DOMAIN users' \ DOMAIN users :
                     flask_session' = SignedIn(id)
                /\ resp' = [resp EXCEPT ![t] =
                              Redirect("google_connected=true")]
  /\ UNCHANGED <<now, token_calls>>
  /\ UNCHANGED <<api_calls, lang_cache, cache_calls, langcache_api_key>>
  /\ UNCHANGED upload_vars

\* GET /auth/status: a session whose user is not found loses its user_id.
AuthStatus(t, max) ==
  /\ AuthArrive(t, "status", max)
  /\ IF flask_session.user_id = ""
       THEN /\ resp' = [resp EXCEPT ![t] = AuthStatusAnswer(FALSE)]
            /\ UNCHANGED flask_session
     ELSE IF flask_session.user_id \notin DOMAIN users
       THEN /\ flask_session' = [flask_session EXCEPT !.user_id = ""]
            /\ resp' = [resp EXCEPT ![t] = AuthStatusAnswer(FALSE)]
     ELSE /\ resp' = [resp EXCEPT ![t] = AuthStatusAnswer(TRUE)]
          /\ UNCHANGED flask_session
  /\ UNCHANGED <<users, now, token_calls>>
  /\ UNCHANGED <<api_calls, lang_cache, cache_calls, langcache_api_key>>
  /\ UNCHANGED upload_vars

\* decorated_function of require_auth (routes/sessions.py) when it
\* answers itself: the session holds no user_id, or no user has that id.
\* The view is not called.
Refuse(t, max) ==
  /\ ~Authenticated
  /\ \E session_id \in SessionIds :
       Serve(t, [NoRequest EXCEPT !.session_id = session_id], max)
  /\ resp' = [resp EXCEPT ![t] =
                IF flask_session.user_id = "" THEN AuthenticationRequired
                                              ELSE UserNotFound]
  /\ loc' = [loc EXCEPT ![t] = LocalsOf("")]
  /\ UNCHANGED <<chunk_storage, practice_sessions, vercel_configured,
                 tempfiles, uploads, arrivals>>
  /\ UNCHANGED cred_vars
  /\ UNCHANGED web_vars

\* The clock advances.
Tick ==
  /\ now < MaxNow
  /\ now' = now + 1
  /\ UNCHANGED <<users, token_calls, call, pc, resp, served>>
  /\ UNCHANGED upload_vars
  /\ UNCHANGED web_vars

\* One step of a credential handler on thread t, after the request was
\* received.
CredStep(t) ==
  \/ StaleCheck(t)
  \/ GateRefresh(t)
  \/ GatePersist(t)
  \/ GateReturn(t)
  \/ RouteRefresh(t)
  \/ RoutePersist(t)
  \/ WriteToSlides(t)

\* --------------------------------------------------------- specifications
\* Requests of one user for one session, one at a time: fragments of up to
\* three chunks under the default upload id.
ReassemblyRequests ==
  [user : {"u1"}, session_id : {"s1"}, has_chunk : {TRUE},
   data : {<<b>> : b \in Bytes},
   chunkIndex : {"0", "1", "2"}, totalChunks : {"2", "3"},
   uploadId : {Missing}, isLastChunk : {"true", "false"}]

Next ==
  \/ Begin(1, ReassemblyRequests, MaxRequests)
  \/ Step(1)

Spec == Init /\ [][Next]_vars

\* Requests of either user for the session of u1, one at a time, with the
\* form fields present or absent, well-formed or not.
FormRequests ==
  [user : Users, session_id : {"s1"}, has_chunk : BOOLEAN,
   data : {<<"A">>},
   chunkIndex : {Missing, "1", "x"}, totalChunks : {Missing, "0", "2", "x"},
   uploadId : {Missing, "up1"},
   isLastChunk : {Missing, "true", "false", "True"}]

NextForm ==
  \/ Begin(1, FormRequests, MaxFormRequests)
  \/ Step(1)

SpecForm == Init /\ [][NextForm]_vars

\* Requests of one user for one upload of two chunks, served by two
\* threads whose steps interleave.
ConcRequests ==
  [user : {"u1"}, session_id : {"s1"}, has_chunk : {TRUE},
   data : {<<"A">>, <<"B">>},
   chunkIndex : {"0", "1"}, totalChunks : {"2"},
   uploadId : {Missing}, isLastChunk : {"true", "false"}]

NextConc ==
  \E t \in Threads :
    \/ Begin(t, ConcRequests, MaxConcRequests)
    \/ Step(t)

SpecConc == Init /\ [][NextConc]_vars

\* Requests of two users, each with a session of their own, served one at
\* a time: fragments under one upload id to either session, and the session
\* routes for either session.
OwnerRequests ==
  {r \in [user : Users, session_id : SessionIds, has_chunk : {TRUE},
          data : {<<"A">>, <<"B">>}, chunkIndex : {"0", "1"},
          totalChunks : {"2"}, uploadId : {"up1"},
          isLastChunk : {"true", "false"}] :
     r.data = IF r.user = "u1" THEN <<"A">> ELSE <<"B">>}

NextOwner ==
  \/ Begin(1, OwnerRequests, MaxOwnerRequests)
  \/ Step(1)
  \/ GetSession(1, SessionRequests, MaxOwnerRequests)
  \/ UpdateSession(1, SessionRequests, MaxOwnerRequests)
  \/ CompleteSession(1, SessionRequests, MaxOwnerRequests)
  \/ DeleteSession(1, SessionRequests, MaxOwnerRequests)
  \/ UploadRecording(1, SessionRequests, MaxOwnerRequests)

SpecOwner == Init /\ [][NextOwner]_vars

\* The state after construction with user store `store` and with or
\* without a LangCache API key: no upload, no request, the clock at 1.
InitStore(store, api_key) ==
  /\ chunk_storage = EmptyDict
  /\ practice_sessions =
       [s \in SessionIds |->
          SessionDoc(IF s = "s1" THEN "u1" ELSE "u2")]
  /\ vercel_configured = FALSE
  /\ tempfiles = <<>>
  /\ uploads = <<>>
  /\ pc = [t \in Threads |-> "idle"]
  /\ req = [t \in Threads |-> NoRequest]
  /\ loc = [t \in Threads |-> NoLocals]
  /\ resp = [t \in Threads |-> NoResponse]
  /\ arrivals = EmptyDict
  /\ disturbed = [t \in Threads |-> FALSE]
  /\ prev = [t \in Threads |-> NoPrevious]
  /\ served = 0
  /\ users = store
  /\ now = 1
  /\ token_calls = <<>>
  /\ call = [t \in Threads |-> NoCall]
  /\ api_calls = <<>>
  /\ lang_cache = EmptyDict
  /\ flask_session = NoSession
  /\ cache_calls = <<>>
  /\ langcache_api_key = api_key

\* The state after construction with user store `store`, LangCache not
\* configured.
InitWith(store) == InitStore(store, FALSE)

\* The documents the sign-in routes leave for user u: a Firebase user
\* without Google tokens, or a user the OAuth callback wrote, with or
\* without a refresh token, whose access token has no expiry, expired at 0,
\* expires at 1 or expires at 2.
StoredDocs(u) ==
  {UserDoc(u, None, None, None)}
    \cup {UserDoc(u, AccessToken(RefreshTokenOf(u), 0), refresh_token,
                  token_expiry) :
            refresh_token \in {None, RefreshTokenOf(u)},
            token_expiry \in {None, At(0), At(1), At(2)}}

\* Requests of a client that is signed in as either user or not at all,
\* one at a time, to a route behind require_auth and to POST /auth/refresh.
CredSessions == {"", "u1", "u2"}

InitCred ==
  \E d \in StoredDocs("u1") :
    InitWith([u \in Users |-> IF u = "u1" THEN d ELSE ConnectedUsers[u]])

NextCred ==
  \/ RequireAuth(1, CredSessions, MaxCredRequests)
  \/ RefreshToken(1, CredSessions, MaxCredRequests)
  \/ WriteFeedbackToSlides(1, CredSessions, MaxCredRequests)
  \/ CredStep(1)
  \/ Tick

SpecCred == InitCred /\ [][NextCred]_vars

\* Requests of one user to routes behind require_auth and to
\* POST /auth/refresh, served by two threads whose steps interleave; the
\* user's access token expired at 0 or expires at 2.
InitCredConc ==
  \E refresh_token \in {None, RefreshTokenOf("u1")},
     token_expiry \in {At(0), At(2)} :
    InitWith([u \in Users |->
                IF u = "u1"
                  THEN UserDoc(u, AccessToken(RefreshTokenOf(u), 0),
                               refresh_token, token_expiry)
                  ELSE ConnectedUsers[u]])

NextCredConc ==
  \/ \E t \in Threads :
       \/ RequireAuth(t, {"u1"}, MaxCredConcRequests)
       \/ RefreshToken(t, {"u1"}, MaxCredConcRequests)
       \/ WriteFeedbackToSlides(t, {"u1"}, MaxCredConcRequests)
       \/ CredStep(t)
  \/ Tick

SpecCredConc == InitCredConc /\ [][NextCredConc]_vars

\* Requests of a client that is signed in as u1 or not at all, one at a
\* time, to the presentation views that use the cache, for two
\* presentations; LangCache is configured or not; the users' access tokens
\* have not expired.
InitCache ==
  \E api_key \in BOOLEAN :
    InitStore([u \in Users |->
                 UserDoc(u, AccessToken(RefreshTokenOf(u), 0),
                         RefreshTokenOf(u), At(2))],
              api_key)

NextCache ==
  \/ ViewRequest(1, {"", "u1"}, MaxCacheRequests)
  \/ StaleCheck(1)
  \/ GateReturn(1)
  \/ GetPresentation(1)
  \/ RefreshPresentation(1)
  \/ WriteFeedback(1)
  \/ ClearCache(1)

SpecCache == InitCache /\ [][NextCache]_vars

\* One browser, its requests served one at a time: sign-in by Firebase or
\* by the OAuth callback, logout, the status route, and the session routes
\* behind require_auth. The store holds u1; the browser starts signed out,
\* signed in as u1, or with a cookie whose user is not in the store.
InitSession ==
  \E user_id \in {"", "u1", "u2"} :
    /\ chunk_storage = EmptyDict
    /\ practice_sessions =
         [s \in SessionIds |->
            SessionDoc(IF s = "s1" THEN "u1" ELSE "u2")]
    /\ vercel_configured = TRUE
    /\ tempfiles = <<>>
    /\ uploads = <<>>
    /\ pc = [t \in Threads |-> "idle"]
    /\ req = [t \in Threads |-> NoRequest]
    /\ loc = [t \in Threads |-> NoLocals]
    /\ resp = [t \in Threads |-> NoResponse]
    /\ arrivals = EmptyDict
    /\ disturbed = [t \in Threads |-> FALSE]
    /\ prev = [t \in Threads |-> NoPrevious]
    /\ served = 0
    /\ users = [u \in {"u1"} |-> ConnectedUsers[u]]
    /\ now = 1
    /\ token_calls = <<>>
    /\ call = [t \in Threads |-> NoCall]
    /\ api_calls = <<>>
    /\ lang_cache = EmptyDict
    /\ flask_session = SignedIn(user_id)
    /\ cache_calls = <<>>
    /\ langcache_api_key = FALSE

NextSession ==
  \/ Logout(1, MaxSessionRequests)
  \/ FirebaseSync(1, MaxSessionRequests)
  \/ GoogleCallback(1, MaxSessionRequests)
  \/ AuthStatus(1, MaxSessionRequests)
  \/ Refuse(1, MaxSessionRequests)
  \/ GetSession(1, AuthenticatedRequests, MaxSessionRequests)
  \/ UpdateSession(1, AuthenticatedRequests, MaxSessionRequests)
  \/ CompleteSession(1, AuthenticatedRequests, MaxSessionRequests)
  \/ DeleteSession(1, AuthenticatedRequests, MaxSessionRequests)
  \/ UploadRecording(1, AuthenticatedRequests, MaxSessionRequests)

SpecSession == InitSession /\ [][NextSession]_vars

\* ================================================================ claims
\* Thread t has returned the response of its request.
Returned(t) == pc[t] = "done"

\* The request of thread t was marked isLastChunk.
Marked(t) == req[t].isLastChunk = "true"

\* The request of thread t passed the session lookup, the file test and
\* the parse of its form fields.
Admitted(t) ==
  /\ FindSession(practice_sessions, req[t].session_id, req[t].user)
  /\ req[t].has_chunk
  /\ FormParses(req[t])

\* The finalization of thread t's request has written its temp file.
Reassembled(t) == loc[t].temp_path > 0

\* The calls that entered a storage service from thread t's request.
CallsOf(t) ==
  SelectSeq(uploads, LAMBDA c : c.request_no = loc[t].request_no)

\* The indices of a log of arrived fragments.
IndicesOf(log) == {log[k].index : k \in DOMAIN log}

\* The payload of the most recent fragment of the log that carries index i.
LatestAt(log, i) ==
  LET ks == {k \in DOMAIN log : log[k].index = i}
  IN  log[CHOOSE k \in ks : \A j \in ks : j <= k].data

\* The payloads of the indices in S, concatenated in ascending index order.
RECURSIVE AscendingConcat(_, _)
AscendingConcat(log, S) ==
  IF S = {}
    THEN <<>>
    ELSE LET m == CHOOSE x \in S : \A y \in S : x <= y
         IN  LatestAt(log, m) \o AscendingConcat(log, S \ {m})

\* The log covers the indices 0..N-1, each exactly once.
ExactlyOnce(log, N) ==
  /\ N >= 1
  /\ Len(log) = N
  /\ IndicesOf(log) = 0 .. (N - 1)

\* C1: when the indices 0..N-1 of an upload with total N were each submitted
\* exactly once, in any order, and the last submission was marked
\* isLastChunk, the storage uploader was handed the payloads concatenated in
\* ascending index order.
C1_UploaderHandedAscendingConcat ==
  \A t \in Threads :
    (/\ Returned(t) /\ Marked(t) /\ Reassembled(t)
     /\ ExactlyOnce(loc[t].received, loc[t].storage.total))
    => /\ CallsOf(t) # <<>>
       /\ \A k \in DOMAIN CallsOf(t) :
            CallsOf(t)[k].content =
              AscendingConcat(loc[t].received,
                              0 .. (loc[t].storage.total - 1))

\* C2: a request marked isLastChunk for a session of the caller hands the
\* combined fragments to the storage uploader (Vercel Blob when configured,
\* otherwise Cloudinary) and removes the entry of the upload.
C2_TerminalRequestUploads ==
  \A t \in Threads :
    (Returned(t) /\ Marked(t) /\ Admitted(t))
    => /\ Len(CallsOf(t)) = 1
       /\ CallsOf(t)[1].content = loc[t].combined_data
       /\ CallsOf(t)[1].service =
            IF vercel_configured THEN "vercel_blob" ELSE "cloudinary"
       /\ loc[t].upload_id \notin DOMAIN chunk_storage
       /\ loc[t].result = "ok" =>
            /\ resp[t].status = 200
            /\ resp[t].body.complete = TRUE
            /\ resp[t].body.recording.url = practice_sessions[req[t].session_id].recording_url

\* The entry a fragment leaves when it is the first of a new UploadSession.
FreshEntryOf(t) ==
  [NewEntry(TotalChunksOf(req[t]), req[t].session_id, req[t].user)
     EXCEPT !.chunks = DictPut(EmptyDict, ChunkIndexOf(req[t]), req[t].data)]

\* C3: once a request marked isLastChunk has returned (here the upload
\* block raised), the table has no entry for its upload id, and the next
\* fragment with that upload id starts a new entry: its total is that
\* fragment's totalChunks and it holds that fragment only.  Requests are
\* served one at a time; prev is the request served just before.
C3_TerminalRequestRemovesEntry ==
  \A t \in Threads :
    /\ (Returned(t) /\ Marked(t) /\ Admitted(t))
         => loc[t].upload_id \notin DOMAIN chunk_storage
    /\ (/\ Admitted(t)
        /\ prev[t].is_last_chunk /\ prev[t].upload_id = UploadIdOf(req[t])
        /\ \/ pc[t] = "combine"
           \/ Returned(t) /\ ~Marked(t))
         => /\ UploadIdOf(req[t]) \in DOMAIN chunk_storage
            /\ chunk_storage[UploadIdOf(req[t])] = FreshEntryOf(t)

C3_Witness ==
  \E t \in Threads :
    /\ Returned(t) /\ ~Marked(t) /\ resp[t].status = 200
    /\ prev[t].is_last_chunk /\ prev[t].upload_id = loc[t].upload_id
    /\ prev[t].status = 500
    /\ chunk_storage[loc[t].upload_id].total = 2
    /\ served = 3

\* C4: when the isLastChunk fragment arrives while some index below the
\* total was never submitted, the handler does not fail in the reassembly,
\* and the buffer it produces is the ascending concatenation of the indices
\* that were received.
C4_GapsContributeNothing ==
  \A t \in Threads :
    /\ pc[t] = "except" => Reassembled(t)
    /\ (pc[t] = "tempfile" \/ Reassembled(t))
         => loc[t].combined_data =
              AscendingConcat(loc[t].received,
                              IndicesOf(loc[t].received)
                                \cap (0 .. (loc[t].storage.total - 1)))

C4_Witness ==
  \E t \in Threads :
    /\ pc[t] = "upload"
    /\ loc[t].storage.total = 3
    /\ IndicesOf(loc[t].received) = {0, 2}
    /\ loc[t].combined_data = <<"A", "C">>

C6_AtMostOneUploaderCall ==
  \A t \in Threads :
    /\ Len(CallsOf(t)) <= 1
    /\ ~Marked(t) =>
         /\ CallsOf(t) = <<>>
         /\ pc[t] \notin {"combine", "tempfile", "upload", "except"}
         /\ ~Reassembled(t)

C6_Witness ==
  \E t \in Threads :
    /\ Returned(t) /\ ~Marked(t) /\ resp[t].status = 200
    /\ prev[t].is_last_chunk /\ prev[t].status = 500
    /\ Len(tempfiles) = 1

\* The chunk of thread t's request was accepted: it was stored in the
\* table.
Accepted(t) == loc[t].stored

\* C7: a response carries complete = true only for a request marked
\* isLastChunk, and an accepted request that is not marked is answered
\* success with complete = false, however many fragments have arrived
\* (SpecConc: for every interleaving of two threads).
C7_CompleteOnlyOnMarked ==
  \A t \in Threads :
    /\ (Accepted(t) /\ ~Marked(t)) => Returned(t)
    /\ Returned(t) =>
         /\ ("complete" \in DOMAIN resp[t].body /\ resp[t].body.complete)
              => Marked(t)
         /\ (Accepted(t) /\ ~Marked(t))
              => /\ resp[t].status = 200
                 /\ resp[t].body.success
                 /\ resp[t].body.complete = FALSE
                 /\ resp[t].body.chunkReceived = ChunkIndexOf(req[t])

C7_Witness ==
  \E t \in Threads :
    /\ Returned(t) /\ ~Marked(t) /\ Accepted(t)
    /\ loc[t].upload_id \in DOMAIN chunk_storage
    /\ LET entry == chunk_storage[loc[t].upload_id]
       IN  /\ entry.total = 2
           /\ DOMAIN entry.chunks = 0 .. 1

\* The upload of thread t's request failed: the upload block raised, or
\* the storage service returned an error result.
UploadFailed(t) ==
  Reassembled(t) /\ (loc[t].e # "" \/ loc[t].result = "error")

Malformed(r) ==
  \/ r.chunkIndex = Missing
  \/ r.chunkIndex \notin DecimalStrings
  \/ r.totalChunks \in DecimalStrings /\ IntValue(r.totalChunks) <= 0

\* C9: a request with malformed fragment metadata is answered a client
\* error, and the table is the same after the request as before it
\* (SpecForm: requests are served one at a time).
C9_MalformedMetadataRejected ==
  \A t \in Threads :
    (Returned(t) /\ Malformed(req[t]))
    => /\ resp[t].status \in 400 .. 499
       /\ chunk_storage = loc[t].table_before

\* C10: when two requests for the same upload id with distinct chunk
\* indices, neither marked isLastChunk, have both been answered success,
\* and no entry of that upload id was deleted since either arrived, the
\* entry holds the payloads of both (SpecConc: two threads).
C10_ConcurrentWritesKept ==
  \A t, u \in Threads :
    (/\ t # u
     /\ Returned(t) /\ Returned(u)
     /\ resp[t].status = 200 /\ resp[u].status = 200
     /\ ~Marked(t) /\ ~Marked(u)
     /\ loc[t].upload_id = loc[u].upload_id
     /\ loc[t].chunk_index # loc[u].chunk_index
     /\ ~disturbed[t] /\ ~disturbed[u])
    => /\ loc[t].upload_id \in DOMAIN chunk_storage
       /\ LET chunks == chunk_storage[loc[t].upload_id].chunks
          IN  /\ loc[t].chunk_index \in DOMAIN chunks
              /\ loc[u].chunk_index \in DOMAIN chunks
              /\ chunks[loc[t].chunk_index] = req[t].data
              /\ chunks[loc[u].chunk_index] = req[u].data

\* Thread t's request called the gate: require_auth found its user.
GateCalled(t) ==
  call[t].route = "presentations" /\ call[t].user_id \in DOMAIN users

\* The gate has returned to require_auth on thread t.
GateReturned(t) == GateCalled(t) /\ pc[t] = "done"

\* The calls of the token endpoint thread t's request made.
TokenCallsOf(t) ==
  SelectSeq(token_calls, LAMBDA c : c.request_no = call[t].request_no)

\* The record the gate was called with was stale when the gate tested it:
\* it has an expiry, and the clock had reached it.
StaleRecord(t) ==
  /\ Truthy(call[t].loaded.token_expiry)
  /\ call[t].checked_at >= call[t].loaded.token_expiry[1]

\* The record the gate was called with has a refresh token.
HasRefreshToken(t) == Truthy(call[t].loaded.refresh_token)

\* The token endpoint answered thread t's request a new token.
Refreshed(t) ==
  \E k \in DOMAIN TokenCallsOf(t) : TokenCallsOf(t)[k].outcome = "ok"

\* C11: when two requests of one user that were in flight together both
\* called the gate with a stale record that has a refresh token, the token
\* endpoint was called once in total and both got the same credential
\* (SpecCredConc: two threads).
C11_SingleFlightRefresh ==
  \A t, u \in Threads :
    (/\ t # u
     /\ GateReturned(t) /\ GateReturned(u)
     /\ call[t].user_id = call[u].user_id
     /\ call[t].overlapped /\ call[u].overlapped
     /\ StaleRecord(t) /\ StaleRecord(u)
     /\ HasRefreshToken(t) /\ HasRefreshToken(u))
    => /\ Len(TokenCallsOf(t)) + Len(TokenCallsOf(u)) = 1
       /\ call[t].credentials # None
       /\ call[t].credentials = call[u].credentials

\* C12: a gate call with a record whose expiry is absent or later than the
\* clock returns a credential of the record's access token and refresh
\* token, calls the token endpoint zero times and leaves the user store as
\* it was when the request arrived (SpecCred: one request at a time).
C12_FreshRecordReturnedUntouched ==
  \A t \in Threads :
    (GateReturned(t) /\ ~StaleRecord(t))
    => /\ call[t].credentials = <<Credentials(call[t].loaded)>>
       /\ TokenCallsOf(t) = <<>>
       /\ users = call[t].users_before

C12_Witness ==
  \E t \in Threads :
    /\ GateReturned(t)
    /\ call[t].loaded.token_expiry = At(2) /\ call[t].checked_at = 1
    /\ resp[t] = ViewCalled(Credentials(call[t].loaded))
    /\ call[t].loaded.access_token = AccessToken(RefreshTokenOf("u1"), 0)

\* C13: a gate call with a stale record that has no refresh token returns
\* None, and calls the token endpoint zero times.
C13_StaleWithoutRefreshTokenUnavailable ==
  \A t \in Threads :
    (GateReturned(t) /\ StaleRecord(t) /\ ~HasRefreshToken(t))
    => /\ call[t].credentials = None
       /\ TokenCallsOf(t) = <<>>

\* C14: a gate call with a stale record (the clock at or past the expiry)
\* that has a refresh token calls the token endpoint; when the endpoint
\* answers, the new access token and the new expiry are in the user's
\* document from the update until the gate has returned, and the credential
\* returned carries the new access token (SpecCred: one request at a time).
C14_RefreshPersistedBeforeReturn ==
  \A t \in Threads :
    (/\ GateCalled(t) /\ pc[t] \in {"gate_return", "done"}
     /\ StaleRecord(t) /\ HasRefreshToken(t))
    => /\ Len(TokenCallsOf(t)) = 1
       /\ Refreshed(t) =>
            LET doc == users[call[t].loaded._id]
                new_tokens == call[t].new_tokens
            IN  /\ Truthy(new_tokens.access_token)
                /\ new_tokens.access_token # call[t].loaded.access_token
                /\ doc.access_token = new_tokens.access_token
                /\ doc.token_expiry = new_tokens.token_expiry
                /\ new_tokens.token_expiry[1] > call[t].checked_at
                /\ pc[t] = "done" =>
                     call[t].credentials =
                       <<[token |-> new_tokens.access_token,
                          refresh_token |-> call[t].loaded.refresh_token]>>

C14_Witness ==
  \E t \in Threads :
    /\ GateReturned(t) /\ Refreshed(t)
    /\ call[t].loaded.token_expiry = At(call[t].checked_at)
    /\ call[t].credentials[1].token = AccessToken(RefreshTokenOf("u1"), 1)
    /\ users["u1"].access_token = AccessToken(RefreshTokenOf("u1"), 1)

\* C15: after a gate call that refreshed, the in-memory record agrees with
\* the user's document on access_token and on token_expiry, so that the
\* expiry test of the gate on that record finds it fresh before the new
\* expiry (SpecCred: one request at a time).
C15_InMemoryRecordRefreshed ==
  \A t \in Threads :
    (GateReturned(t) /\ Refreshed(t))
    => LET doc == users[call[t].loaded._id]
       IN  /\ call[t].user_doc.access_token = doc.access_token
           /\ call[t].user_doc.token_expiry = doc.token_expiry
           /\ now < doc.token_expiry[1]
                => ~Stale(call[t].user_doc.token_expiry, now)

\* C16: a gate call with a stale record that has a refresh token, whose
\* call of the token endpoint fails, returns None after exactly one call of
\* the endpoint, and the user's document keeps the access token and the
\* expiry it had (SpecCred: one request at a time).
C16_FailedRefreshUnavailable ==
  \A t \in Threads :
    (/\ GateReturned(t) /\ StaleRecord(t) /\ HasRefreshToken(t)
     /\ ~Refreshed(t))
    => LET doc == users[call[t].loaded._id]
       IN  /\ Len(TokenCallsOf(t)) = 1
           /\ TokenCallsOf(t)[1].outcome = "error"
           /\ call[t].credentials = None
           /\ doc.access_token = call[t].loaded.access_token
           /\ doc.token_expiry = call[t].loaded.token_expiry

C16_Witness ==
  \E t \in Threads :
    /\ GateReturned(t) /\ StaleRecord(t) /\ HasRefreshToken(t)
    /\ Len(TokenCallsOf(t)) = 1 /\ ~Refreshed(t)
    /\ resp[t] = InvalidCredentials
    /\ users = call[t].users_before

\* C17: every credential the gate returns carries the record's access
\* token after the gate found the record not stale, or the access token the
\* token endpoint answered that call (SpecCredConc: two threads).
C17_NoStaleTokenReturned ==
  \A t \in Threads :
    (GateReturned(t) /\ call[t].credentials # None)
    => \/ /\ ~StaleRecord(t)
          /\ call[t].credentials[1].token = call[t].loaded.access_token
       \/ /\ Refreshed(t)
          /\ call[t].credentials[1].token = call[t].new_tokens.access_token

\* C18: the total of an entry is the totalChunks of the fragment that
\* allocated it, whatever the later fragments declare, and the reassembly
\* runs over that total: it concatenates the received indices below it
\* (Spec: one request at a time, so the allocating fragment is the first of
\* the entry).
C18_TotalFixedByAllocatingFragment ==
  /\ \A u \in DOMAIN chunk_storage :
       arrivals[u] # <<>>
         => chunk_storage[u].total = arrivals[u][1].total_chunks
  /\ \A t \in Threads :
       (pc[t] = "tempfile" \/ Reassembled(t))
         => /\ loc[t].storage.total = loc[t].received[1].total_chunks
            /\ loc[t].combined_data =
                 AscendingConcat(
                   loc[t].received,
                   {i \in IndicesOf(loc[t].received) :
                      i < loc[t].received[1].total_chunks})

C18_Witness ==
  \E t \in Threads :
    /\ Reassembled(t)
    /\ loc[t].received[1].total_chunks = 2
    /\ \E k \in DOMAIN loc[t].received :
         /\ loc[t].received[k].total_chunks = 3
         /\ loc[t].received[k].index = 2
    /\ Len(loc[t].combined_data) = 1

\* The indices below the total that the log holds, up to i.
ReceivedUpTo(t, i) ==
  {j \in IndicesOf(loc[t].received) : j <= i /\ j < loc[t].storage.total}

\* C19: the reassembled stream holds, for every received index below the
\* total, the payload of the most recent fragment with that index, once:
\* the payloads are single bytes, so the byte of index i stands at the
\* number of received indices up to i, and the stream is as long as there
\* are received indices below the total (Spec: one request at a time).
C19_LastWriteWins ==
  \A t \in Threads :
    (pc[t] = "tempfile" \/ Reassembled(t))
    => /\ Len(loc[t].combined_data) =
            Cardinality(ReceivedUpTo(t, loc[t].storage.total))
       /\ \A i \in ReceivedUpTo(t, loc[t].storage.total) :
            /\ loc[t].storage.chunks[i] = LatestAt(loc[t].received, i)
            /\ <<loc[t].combined_data[Cardinality(ReceivedUpTo(t, i))]>> =
                 LatestAt(loc[t].received, i)

C19_Witness ==
  \E t \in Threads :
    /\ Reassembled(t)
    /\ Len(loc[t].received) = 3
    /\ loc[t].received[1].index = 0 /\ loc[t].received[1].data = <<"A">>
    /\ loc[t].received[2].index = 0 /\ loc[t].received[2].data = <<"B">>
    /\ loc[t].received[3].index = 1
    /\ loc[t].combined_data[1] = "B"

\* C20: no step deletes or adds a document of the user store or changes a
\* refresh_token; a step changes at most the document of the user whose
\* request takes it, at the update of the gate or of POST /auth/refresh, and
\* there only access_token and token_expiry, and updated_at in the route.
C20_RefreshWritesOnlyTokenFields ==
  [][/\ DOMAIN users' = DOMAIN users
     /\ \A id \in DOMAIN users :
          /\ DOMAIN users'[id] = DOMAIN users[id]
          /\ users'[id].refresh_token = users[id].refresh_token
          /\ \A f \in DOMAIN users[id] \
                        {"access_token", "token_expiry", "updated_at"} :
               users'[id][f] = users[id][f]
          /\ users'[id] # users[id] =>
               \E t \in Threads :
                 /\ call[t].user_id = id
                 /\ \/ pc[t] = "route_persist"
                    \/ /\ pc[t] = "gate_persist"
                       /\ users'[id].updated_at = users[id].updated_at]_vars

C20_Witness ==
  /\ \E t \in Threads :
       /\ pc[t] = "done" /\ call[t].route = "refresh" /\ Refreshed(t)
       /\ users[call[t].user_id].updated_at = At(2)
       /\ users[call[t].user_id].access_token
            = AccessToken(RefreshTokenOf(call[t].user_id), 2)
  /\ users["u1"].access_token # users["u2"].access_token

\* C21: an entry enters the table only at the allocation by a fragment of
\* its upload id, and leaves it only in the finalization of a request marked
\* isLastChunk for that upload id; every other step, of whatever request,
\* keeps the entries that are there (SpecForm: two upload ids).
C21_EntryRemovedOnlyByTerminalRequest ==
  [][/\ \A u \in (DOMAIN chunk_storage) \ (DOMAIN chunk_storage') :
          \E t \in Threads :
            /\ Marked(t) /\ loc[t].upload_id = u
            /\ pc[t] \in {"upload", "except"}
     /\ \A u \in (DOMAIN chunk_storage') \ (DOMAIN chunk_storage) :
          \E t \in Threads :
            /\ pc[t] = "alloc" /\ loc[t].upload_id = u
            /\ chunk_storage'[u].chunks = EmptyDict]_vars

C21_Witness ==
  \E t \in Threads :
    /\ Returned(t) /\ Marked(t) /\ resp[t].status = 500
    /\ loc[t].upload_id = "s1" /\ "s1" \notin DOMAIN chunk_storage
    /\ prev[t].upload_id = "up1" /\ ~prev[t].is_last_chunk
    /\ "up1" \in DOMAIN chunk_storage
    /\ served = MaxFormRequests

\* The gate was called by thread t's request and returned None.
GateUnavailable(t) ==
  /\ pc[t] = "done"
  /\ call[t].route \in {"presentations", "analyze"}
  /\ call[t].checked_at > 0
  /\ call[t].credentials = None

\* The calls of the Slides/Drive API thread t's request made.
ApiCallsOf(t) ==
  SelectSeq(api_calls, LAMBDA c : c.request_no = call[t].request_no)

\* C22: a request whose gate call returned None is answered 401 by
\* require_auth of the presentation routes and by write_feedback_to_slides:
\* the view is not called and the request makes no call of the Slides/Drive
\* API (SpecCred: one request at a time).
C22_UnavailableAnswered401 ==
  \A t \in Threads :
    GateUnavailable(t)
    => /\ resp[t].status = 401
       /\ DOMAIN resp[t].body = {"error"}
       /\ ApiCallsOf(t) = <<>>

C22_Witness ==
  \E t \in Threads :
    /\ GateUnavailable(t) /\ call[t].route = "analyze"
    /\ resp[t] = InvalidCredentialsAnalyze
    /\ Len(TokenCallsOf(t)) = 1
    /\ \E k \in DOMAIN api_calls : api_calls[k].request_no < call[t].request_no

C27_TempFilesDeleted ==
  \A t \in Threads :
    (Returned(t) /\ Reassembled(t))
    => tempfiles[loc[t].temp_path] = Unlinked

\* The positions of the log of received fragments whose payload the
\* reassembly of thread t reads: the most recent fragment of every index
\* below the total.
IncludedFragments(t) ==
  {k \in DOMAIN loc[t].received :
     /\ loc[t].received[k].index < loc[t].storage.total
     /\ \A m \in DOMAIN loc[t].received :
          loc[t].received[m].index = loc[t].received[k].index => m <= k}

\* C24: the byte stream reassembled for a terminal request holds only
\* fragments that the user of that request submitted, also when two users
\* send under the same uploadId.
C24_NoForeignFragmentsReassembled ==
  \A t \in Threads :
    (pc[t] = "tempfile" \/ Reassembled(t))
    => \A k \in IncludedFragments(t) :
         loc[t].received[k].user = req[t].user

\* The request that thread t served names a practice session that was
\* stored under another user's id when the request arrived.
ForeignSessionNamed(t) ==
  /\ loc[t].route # ""
  /\ req[t].session_id \in DOMAIN loc[t].sessions_before
  /\ loc[t].sessions_before[req[t].session_id].user_id # req[t].user

\* C25: a step changes or deletes a practice session only on behalf of a
\* request of the session's owner that names the session, and a request of
\* get_session, update_session, complete_session, delete_session,
\* upload_recording or upload_chunk that names another user's session is
\* answered 404 with the sessions as they were.
C25_ForeignSessionsUntouched ==
  [][/\ \A s \in DOMAIN practice_sessions :
          (s \notin DOMAIN practice_sessions'
             \/ practice_sessions'[s] # practice_sessions[s])
          => \E t \in Threads :
               /\ req'[t].user = practice_sessions[s].user_id
               /\ req'[t].session_id = s
               /\ <<pc[t], resp[t], loc[t]>> # <<pc'[t], resp'[t], loc'[t]>>
     /\ \A t \in Threads :
          (Returned(t) /\ ForeignSessionNamed(t))'
          => /\ resp'[t] = SessionNotFound
             /\ practice_sessions' = loc'[t].sessions_before]_vars

\* A request to delete another user's session was answered 404 after the
\* owner had completed that session with metrics.
C25_Witness ==
  \E t \in Threads :
    /\ Returned(t) /\ ForeignSessionNamed(t)
    /\ loc[t].route = "delete_session"
    /\ resp[t] = SessionNotFound
    /\ practice_sessions[req[t].session_id].ended_at # None
    /\ practice_sessions[req[t].session_id].metrics # <<>>

\* C26: while upload_recording or upload_chunk serves a request, the
\* practice sessions differ from what they were when the request arrived
\* only after a storage service returned a result without an error, and a
\* request of these routes that is answered with an error leaves the
\* practice sessions as they were.
C26_ErrorLeavesSessionUnchanged ==
  \A t \in Threads :
    loc[t].route \in {"upload_recording", "upload_chunk"}
    => /\ practice_sessions # loc[t].sessions_before
            => /\ loc[t].result = "ok"
               /\ \E k \in DOMAIN uploads :
                    uploads[k].request_no = loc[t].request_no
       /\ (Returned(t) /\ resp[t].status >= 400)
            => practice_sessions = loc[t].sessions_before

\* An upload_recording request whose storage service returned an error
\* result was answered 500.
C26_Witness ==
  \E t \in Threads :
    /\ Returned(t)
    /\ loc[t].route = "upload_recording"
    /\ loc[t].result = "error"
    /\ resp[t].status = 500
    /\ \E k \in DOMAIN uploads : uploads[k].request_no = loc[t].request_no
    /\ practice_sessions[req[t].session_id].recording_url = None

\* Thread t's request is a get_presentation that was answered from the
\* cache.
ServedFromCache(t) ==
  /\ Returned(t)
  /\ call[t].route = "get_presentation"
  /\ resp[t].status = 200
  /\ resp[t].body.flag = "cached" /\ resp[t].body.value

\* The calls before thread t's request that invalidated the cached
\* presentation the request names, or stored a value for it.
PriorWrites(t) ==
  SelectSeq(cache_calls,
            LAMBDA c :
              /\ c.request_no < call[t].request_no
              /\ c.prompt = PresentationPrompt(call[t].user_id,
                                               call[t].presentation_id)
              /\ \/ c.method = "invalidate_presentation"
                 \/ c.method = "set_presentation" /\ c.stored)

\* C28: a get_presentation that comes after invalidate_presentation was
\* called for its user and presentation (write_feedback calls it after a
\* successful update of the speaker notes), with no value stored by
\* set_presentation since, is not answered from the cache.
C28_InvalidatedNotServedFromCache ==
  \A t \in Threads :
    (/\ Returned(t)
     /\ call[t].route = "get_presentation"
     /\ PriorWrites(t) # <<>>
     /\ PriorWrites(t)[Len(PriorWrites(t))].method = "invalidate_presentation")
    => ~ServedFromCache(t)

\* The calls of clear_user_cache for the user of thread t's request that
\* came before the request and after the last value that set_presentation
\* stored for the presentation the request names.
ClearsSinceStored(t) ==
  {k \in DOMAIN cache_calls :
     /\ cache_calls[k].method = "clear_user_cache"
     /\ cache_calls[k].prompt = PresentationsListPrompt(call[t].user_id)
     /\ cache_calls[k].request_no < call[t].request_no
     /\ \A m \in DOMAIN cache_calls :
          (/\ m > k
           /\ cache_calls[m].method = "set_presentation"
           /\ cache_calls[m].stored
           /\ cache_calls[m].prompt =
                PresentationPrompt(call[t].user_id, call[t].presentation_id))
          => cache_calls[m].request_no >= call[t].request_no}

\* C29: after POST /presentations/cache/clear returned for a user, a
\* get_presentation of that user for a presentation cached before the
\* call is not answered from the cache.
C29_ClearedNotServedFromCache ==
  \A t \in Threads : ServedFromCache(t) => ClearsSinceStored(t) = {}

\* The stored state: the collections, the upload table, the files and the
\* cache.
stored_state ==
  <<users, practice_sessions, chunk_storage, tempfiles, uploads, lang_cache>>

\* In this step thread t serves a new request to a route behind
\* require_auth of routes/sessions.py.
ProtectedRequestServed(t) ==
  served' = served + 1 /\ loc'[t].request_no = served'

\* In this step thread t serves a new request to `route` of routes/auth.py.
AuthRouteServed(t, route) ==
  /\ served' = served + 1
  /\ call'[t].request_no = served'
  /\ call'[t].route = route

\* C30: a view behind require_auth runs only for a request whose session
\* holds the user_id of an existing user, as that user; any other request
\* to a protected route is answered 401 and leaves the stored state and
\* the session as they were. POST /auth/logout leaves the session without
\* user_id, and a session without user_id gets one only from firebase_sync
\* or the OAuth callback: from a logout to the next of these, every
\* protected request is answered 401.
C30_ProtectedOnlyWhenSignedIn ==
  [][/\ \A t \in Threads :
          ProtectedRequestServed(t)
          => IF Authenticated
               THEN /\ loc'[t].route # ""
                    /\ req'[t].user = flask_session.user_id
               ELSE /\ loc'[t].route = ""
                    /\ resp'[t].status = 401
                    /\ UNCHANGED stored_state
                    /\ UNCHANGED flask_session
     /\ \A t \in Threads :
          AuthRouteServed(t, "logout") => flask_session'.user_id = ""
     /\ (flask_session.user_id = "" /\ flask_session'.user_id # "")
          => \E t \in Threads :
               \/ AuthRouteServed(t, "firebase_sync")
               \/ AuthRouteServed(t, "callback")]_vars

\* A request to a protected route was answered 401 right after a logout,
\* in a browser whose user had completed a practice session before.
C30_Witness ==
  \E t \in Threads :
    /\ Returned(t)
    /\ loc[t].request_no = served /\ loc[t].route = ""
    /\ resp[t] = AuthenticationRequired
    /\ call[t].route = "logout" /\ call[t].request_no = served - 1
    /\ call[t].user_id = "u1"
    /\ practice_sessions["s1"].ended_at # None
    /\ flask_session = NoSession

====
